---- MODULE Spec2Model ----
(***************************************************************************)
(* Multi-strategy market data resolution (src/app.py): the fallback ladder *)
(* primary symbol -> alternative symbols -> proxy symbols -> correlated    *)
(* demo data, the per-symbol period/interval ladder, the OHLCV normalizer, *)
(* the correlation adjustment and the synthetic series generators.         *)
(*                                                                         *)
(* Numbers.  Python floats are modelled as exact rationals <<n, d>> in     *)
(* lowest terms with d > 0; None and NaN are modelled as <<0, 0>>.          *)
(* Formatted strings (f-strings) are modelled as the tuple of their parts. *)
(* Time is counted in minutes.                                             *)
(***************************************************************************)
EXTENDS Integers, Sequences, FiniteSets, TLC

\* ------------------------------------------------------------------------
\* Bounds of the model
\* ------------------------------------------------------------------------

\* largest number of rows in a provider table
MaxRows == 11

\* number of distinct streams of random draws (np.random)
NumSeeds == 2

\* ------------------------------------------------------------------------
\* Exact rational arithmetic
\* ------------------------------------------------------------------------

None == <<0, 0>>

IsNone(x) == x[2] = 0

AbsInt(n) == IF n < 0 THEN -n ELSE n

RECURSIVE GCD(_, _)
GCD(a, b) == IF b = 0 THEN a ELSE GCD(b, a % b)

\* the rational n/d in lowest terms, d # 0
Rat(n, d) ==
    LET g == GCD(AbsInt(n), AbsInt(d))
        s == IF d < 0 THEN -1 ELSE 1
    IN  <<(s * n) \div g, (s * d) \div g>>

Int2Rat(n) == <<n, 1>>

RatAdd(x, y) == Rat(x[1] * y[2] + y[1] * x[2], x[2] * y[2])

RatNeg(x) == <<-x[1], x[2]>>

RatSub(x, y) == RatAdd(x, RatNeg(y))

\* product, cancelling across the factors first to keep the integers small
RatMul(x, y) ==
    LET g1 == GCD(AbsInt(x[1]), y[2])
        g2 == GCD(AbsInt(y[1]), x[2])
    IN  <<(x[1] \div g1) * (y[1] \div g2), (x[2] \div g2) * (y[2] \div g1)>>

\* reciprocal, y # 0
RatInv(y) == IF y[1] < 0 THEN <<-y[2], -y[1]>> ELSE <<y[2], y[1]>>

\* quotient, y # 0
RatDiv(x, y) == RatMul(x, RatInv(y))

\* 1 + x and 1 - x
OnePlus(x) == <<x[2] + x[1], x[2]>>

OneMinus(x) == <<x[2] - x[1], x[2]>>

RatAbs(x) == <<AbsInt(x[1]), x[2]>>

RatIsZero(x) == x[2] # 0 /\ x[1] = 0

RatLess(x, y) == x[1] * y[2] < y[1] * x[2]

RatLeq(x, y) == x[1] * y[2] <= y[1] * x[2]

RatMax(x, y) == IF RatLess(x, y) THEN y ELSE x

RatMin(x, y) == IF RatLess(y, x) THEN y ELSE x

One == Int2Rat(1)

Half == Rat(1, 2)

\* <<q, r>> with a * b = q * c + r and 0 <= r < c, for a, b >= 0 and c > 0,
\* computed by doubling so that no intermediate exceeds 2 * c
RECURSIVE MulDivModWide(_, _, _)
MulDivModWide(a, b, c) ==
    IF b = 0 THEN <<0, 0>>
    ELSE LET h  == MulDivModWide(a, b \div 2, c)
             q2 == 2 * h[1] + ((2 * h[2]) \div c)
             r2 == (2 * h[2]) % c
         IN  IF b % 2 = 0 THEN <<q2, r2>>
             ELSE <<q2 + (a \div c) + ((r2 + (a % c)) \div c), (r2 + (a % c)) % c>>

MulDivMod(a, b, c) ==
    IF a = 0 \/ b <= 2147483647 \div a THEN <<(a * b) \div c, (a * b) % c>>
    ELSE IF a < b THEN MulDivModWide(b, a, c)
    ELSE MulDivModWide(a, b, c)

\* the integer nearest to q + r / c, ties to even
NearestEven(q, r, c) ==
    IF 2 * r < c THEN q
    ELSE IF 2 * r > c THEN q + 1
    ELSE IF q % 2 = 0 THEN q ELSE q + 1

\* round(x * 10^2) for x >= 0 given as n/d
RoundHundredths(n, d) ==
    LET qr == MulDivMod(n, 100, d)
    IN  NearestEven(qr[1], qr[2], d)

\* Python round(x, 2)
Round2(x) ==
    IF x[1] >= 0 THEN Rat(RoundHundredths(x[1], x[2]), 100)
    ELSE Rat(-RoundHundredths(-x[1], x[2]), 100)

\* Python round(x * f, 2), without forming the product x * f as one fraction
RoundMul2(x, f) ==
    LET g1 == GCD(AbsInt(x[1]), f[2])
        g2 == GCD(AbsInt(f[1]), x[2])
        a  == AbsInt(x[1]) \div g1
        b  == AbsInt(f[1]) \div g2
        c  == (x[2] \div g2) * (f[2] \div g1)
        s  == IF (x[1] < 0) # (f[1] < 0) THEN -1 ELSE 1
        \* a * b / c = q + r / c
        qr == MulDivMod(a, b, c)
        h  == MulDivMod(qr[2], 100, c)
    IN  Rat(s * NearestEven(qr[1] * 100 + h[1], h[2], c), 100)

\* Python int(x): truncation toward zero
Trunc(x) == IF x[1] >= 0 THEN x[1] \div x[2] ELSE -((-x[1]) \div x[2])

\* ------------------------------------------------------------------------
\* Symbol catalog
\* ------------------------------------------------------------------------

Info(name, alternatives, proxy_symbols, market_correlation) ==
    [name |-> name, alternatives |-> alternatives,
     proxy_symbols |-> proxy_symbols, market_correlation |-> market_correlation]

SYMBOL_ALTERNATIVES ==
    ("^AXJO" :> Info("ASX 200 (Australia)", <<"^AXJO", "XJO.AX", "IOZ.AX">>,
                     <<"^AORD", "VAS.AX">>, Rat(100, 100))) @@
    ("^AXKO" :> Info("ASX 300 (Australia)", <<"^AXKO", "XKO.AX", "VAS.AX">>,
                     <<"^AXJO", "^AORD", "IOZ.AX">>, Rat(95, 100))) @@
    ("^AFLI" :> Info("ASX 50 (Australia)", <<"^AFLI", "XFL.AX">>,
                     <<"^AXJO", "IOZ.AX">>, Rat(85, 100))) @@
    ("^AXMD" :> Info("ASX 100 (Australia)", <<"^AXMD", "XTO.AX">>,
                     <<"^AXJO", "^AORD">>, Rat(90, 100))) @@
    ("^AXSO" :> Info("ASX Small Cap (Australia)", <<"^AXSO", "VSO.AX">>,
                     <<"^AXJO", "^AORD">>, Rat(70, 100))) @@
    ("^N225" :> Info("Nikkei 225 (Japan)", <<"^N225", "NKY", "1321.T">>,
                     <<"EWJ">>, Rat(100, 100))) @@
    ("^HSI" :> Info("Hang Seng (Hong Kong)", <<"^HSI", "HSI", "2800.HK">>,
                    <<"EWH", "FXI">>, Rat(100, 100))) @@
    ("000001.SS" :> Info("Shanghai Composite (China)",
                         <<"000001.SS", "SHCOMP", "510300.SS">>,
                         <<"FXI", "MCHI">>, Rat(100, 100))) @@
    ("^NSEI" :> Info("Nifty 50 (India)", <<"^NSEI", "NSEI", "^NSEBANK">>,
                     <<"INDA", "EPI">>, Rat(100, 100))) @@
    ("^GSPC" :> Info("S&P 500 (USA)", <<"^GSPC">>, <<"SPY">>, Rat(100, 100))) @@
    ("^DJI" :> Info("Dow Jones (USA)", <<"^DJI">>, <<"DIA">>, Rat(100, 100))) @@
    ("^IXIC" :> Info("NASDAQ (USA)", <<"^IXIC">>, <<"QQQ">>, Rat(100, 100))) @@
    ("^FTSE" :> Info("FTSE 100 (UK)", <<"^FTSE">>, <<"EWU">>, Rat(100, 100))) @@
    ("^GDAXI" :> Info("DAX (Germany)", <<"^GDAXI">>, <<"EWG">>, Rat(100, 100))) @@
    ("^FCHI" :> Info("CAC 40 (France)", <<"^FCHI">>, <<"EWQ">>, Rat(100, 100))) @@
    ("^BSESN" :> Info("BSE Sensex (India)", <<"^BSESN">>, <<"INDA">>, Rat(100, 100))) @@
    ("^KS11" :> Info("KOSPI (South Korea)", <<"^KS11">>, <<"EWY">>, Rat(100, 100))) @@
    ("^TWII" :> Info("Taiwan Weighted (Taiwan)", <<"^TWII">>, <<"EWT">>, Rat(100, 100))) @@
    ("^JKSE" :> Info("Jakarta Composite (Indonesia)", <<"^JKSE">>, <<"EIDO">>,
                     Rat(100, 100)))

\* a symbol that is not a key of the catalog
UnknownSymbol == "ZZZZ"

\* the symbols a caller asks for
RequestSymbols == DOMAIN SYMBOL_ALTERNATIVES \cup {UnknownSymbol}

\* variant: the default profile carries a proxy
LookupInfo_proxied(symbol) ==
    IF symbol \in DOMAIN SYMBOL_ALTERNATIVES
    THEN SYMBOL_ALTERNATIVES[symbol]
    ELSE Info(symbol, <<symbol>>, <<"SPY">>, Rat(10, 10))

\* SYMBOL_ALTERNATIVES.get(symbol, {default profile})
LookupInfo(symbol) ==
    IF symbol \in DOMAIN SYMBOL_ALTERNATIVES
    THEN SYMBOL_ALTERNATIVES[symbol]
    ELSE Info(symbol, <<symbol>>, <<>>, Rat(10, 10))

\* variant: the slice [1:] is forgotten
AlternativesToTry_all(symbol_info) == symbol_info.alternatives

\* variant: the alternatives after the first are walked backwards
AlternativesToTry_reversed(symbol_info) ==
    LET rest == Tail(symbol_info.alternatives)
    IN  [i \in 1..Len(rest) |-> rest[Len(rest) + 1 - i]]

\* variant: no alternative is walked
AlternativesToTry_none(symbol_info) == <<>>

\* symbol_info['alternatives'][1:]
AlternativesToTry(symbol_info) == Tail(symbol_info.alternatives)

\* the benchmark symbols of generate_correlated_demo_data: the one tried
\* first and the ones of the loop that follows
FirstBaseSymbol == "^GSPC"

\* variant: the other indices in another order
OtherBaseSymbols_swapped == <<"^IXIC", "^DJI", "^FTSE">>

OtherBaseSymbols == <<"^DJI", "^IXIC", "^FTSE">>

\* the window generate_correlated_demo_data asks for
BaseHours == 24

\* ------------------------------------------------------------------------
\* Python values: a list or None
\* ------------------------------------------------------------------------

NoneData == [isNone |-> TRUE, list |-> <<>>]

ListData(s) == [isNone |-> FALSE, list |-> s]

\* truth value of `x` for x a list or None
Truthy(x) == ~x.isNone /\ Len(x.list) > 0

\* ------------------------------------------------------------------------
\* Clock and time zones (minutes)
\* ------------------------------------------------------------------------

\* datetime.now(): minutes since the epoch
Now == 1000000

Minutes(hours) == hours * 60

Days(d) == d * 1440

\* UTC offset of a zone; a naive index is localized as UTC
UtcOffset(tz) ==
    CASE tz = "naive" -> 0
      [] tz = "UTC" -> 0
      [] tz = "America/New_York" -> -300
      [] tz = "Australia/Sydney" -> 600

\* the instant of a wall-clock index value of a table in zone tz
Instant(ts, tz) == ts - UtcOffset(tz)

\* tz_convert(sydney_tz) followed by strftime / isoformat
SydneyTime(inst) == <<inst + UtcOffset("Australia/Sydney"), "Australia/Sydney">>

SydneyIso(inst) == <<inst + UtcOffset("Australia/Sydney"), UtcOffset("Australia/Sydney")>>

\* ------------------------------------------------------------------------
\* Provider tables: what ticker.history(period, interval) may answer
\* ------------------------------------------------------------------------

RawRow(ts, o, h, l, c, v) ==
    [ts |-> ts, Open |-> o, High |-> h, Low |-> l, Close |-> c, Volume |-> v]

TableKinds == {"swing", "stale", "nanclose", "gappy", "zero", "malformed"}

\* time zone of the index of a table of each kind
KindTz(kind) ==
    CASE kind \in {"stale", "nanclose"} -> "naive"
      [] kind \in {"swing", "gappy"} -> "America/New_York"
      [] OTHER -> "UTC"

\* age in minutes of the newest row of a table of each kind
KindAge(kind, step) ==
    IF kind = "stale" THEN Days(40) + step ELSE 0

\* the values of row i of a table of each kind
KindRow(kind, i, ts) ==
    CASE kind = "swing" ->
           RawRow(ts, Int2Rat(100), Int2Rat(126), Int2Rat(99),
                  IF i % 2 = 1 THEN Int2Rat(125) ELSE Int2Rat(100), Int2Rat(7000 + i))
      [] kind = "nanclose" ->
           RawRow(ts, Int2Rat(100), Int2Rat(103), Int2Rat(99), None, Int2Rat(5000))
      [] kind = "gappy" ->
           IF i % 2 = 1
           THEN RawRow(ts, Int2Rat(50), None, None, None, Int2Rat(300))
           ELSE RawRow(ts, None, Int2Rat(51), None, Int2Rat(50),
                       IF i % 4 = 0 THEN None ELSE Int2Rat(-40))
      [] kind = "zero" ->
           IF i % 2 = 1
           THEN RawRow(ts, Int2Rat(0), Int2Rat(0), Int2Rat(0), Int2Rat(0), Int2Rat(0))
           ELSE RawRow(ts, Int2Rat(100), Int2Rat(103), Int2Rat(99), Int2Rat(102),
                       Rat(11, 2))
      [] OTHER ->
           RawRow(ts, Int2Rat(100), Int2Rat(103), Int2Rat(99), Int2Rat(102),
                  Int2Rat(5000))

\* a table of n rows spaced by step minutes, oldest first
Table(kind, n, step) ==
    [tz |-> KindTz(kind),
     wellformed |-> kind # "malformed",
     rows |-> [i \in 1..n |->
                 KindRow(kind, i,
                         Now - KindAge(kind, step) - (n - i) * step
                             + UtcOffset(KindTz(kind)))]]

\* minutes between two rows at a sampling interval
IntervalMinutes(interval) ==
    CASE interval = "1m" -> 1
      [] interval = "5m" -> 5
      [] interval = "1h" -> 60
      [] interval = "1d" -> 1440

\* row thresholds of strategies A and B
RungAMinRows == 10

RungBMinRows == 5

\* the numbers of rows a provider table may have
RowCounts == {0, 1, RungBMinRows, RungBMinRows + 1} \cup (RungAMinRows..MaxRows)

\* the exceptions ticker.history may raise
ProviderErrors == {"network", "rate_limit", "timeout", "unknown_symbol"}

\* the answers of the provider: an exception (network error, rate limit,
\* timeout, unknown symbol) or a table
Raise(exc) == [raises |-> TRUE, exc |-> exc, table |-> Table("swing", 0, 1)]

Responses(interval) ==
    {Raise(exc) : exc \in ProviderErrors} \cup
    {[raises |-> FALSE, exc |-> "none",
      table |-> Table(k, n, IntervalMinutes(interval))] :
        k \in TableKinds, n \in RowCounts}

\* ------------------------------------------------------------------------
\* process_market_data
\* ------------------------------------------------------------------------

\* variant: every row is taken
TailRows_all(rows, k) == rows

\* data.tail(k)
TailRows(rows, k) ==
    IF Len(rows) <= k THEN rows ELSE SubSeq(rows, Len(rows) - k + 1, Len(rows))

WidenRows == 100

DailyWindowDays == 5

\* variant: is_daily is not looked at
CutoffTime_hours(max_hours, is_daily) == Now - Minutes(max_hours)

\* cutoff_time
CutoffTime(max_hours, is_daily) ==
    IF is_daily THEN Now - Days(DailyWindowDays) ELSE Now - Minutes(max_hours)

\* recent_data: the rows at or after the cutoff, else the last 100 rows
RecentData(table, max_hours, is_daily) ==
    LET recent == SelectSeq(table.rows,
                     LAMBDA row : Instant(row.ts, table.tz)
                                     >= CutoffTime(max_hours, is_daily))
    IN  IF recent = <<>> THEN TailRows(table.rows, WidenRows) ELSE recent

\* variant: a volume that is present is taken whatever its sign
VolumeOf_unfloored(v) == IF ~IsNone(v) THEN Trunc(v) ELSE 0

\* int(row['Volume']) if pd.notna(row['Volume']) and row['Volume'] > 0 else 0
VolumeOf(v) == IF ~IsNone(v) /\ v[1] > 0 THEN Trunc(v) ELSE 0

\* data_point; origin records where a point comes from and is not a field of
\* the program's dictionary
DataPoint(row, tz) ==
    [timestamp |-> SydneyTime(Instant(row.ts, tz)),
     timestamp_raw |-> SydneyIso(Instant(row.ts, tz)),
     open |-> row.Open, high |-> row.High, low |-> row.Low, close |-> row.Close,
     volume |-> VolumeOf(row.Volume),
     origin |-> "provider"]

\* variant: every point is appended
KeepPoint_all(point) == TRUE

\* if data_point['close'] is not None: result.append(data_point)
KeepPoint(point) == ~IsNone(point.close)

\* variant: the list is returned as it is, empty or not
ResultOrNone_list(result) == ListData(result)

\* return result if result else None
ResultOrNone(result) == IF result # <<>> THEN ListData(result) ELSE NoneData

process_market_data(table, max_hours, is_daily) ==
    IF Len(table.rows) = 0 THEN NoneData
    ELSE IF ~table.wellformed THEN NoneData   \* KeyError caught at line 401
    ELSE LET recent == RecentData(table, max_hours, is_daily)
             points == [i \in 1..Len(recent) |-> DataPoint(recent[i], table.tz)]
             result == SelectSeq(points, KeepPoint)
         IN  ResultOrNone(result)

\* ------------------------------------------------------------------------
\* apply_correlation_adjustment
\* ------------------------------------------------------------------------

\* truth value of adjusted_point['open']: present and not 0.0
OpenTruthy(point) == ~IsNone(point.open) /\ ~RatIsZero(point.open)

\* variant: the price change is not scaled by the correlation
AdjustPoint_unscaled(point, correlation_factor) ==
    IF OpenTruthy(point)
    THEN LET price_change    == RatDiv(RatSub(point.close, point.open), point.open)
             adjusted_change == price_change
             close == RatMul(point.open, OnePlus(adjusted_change))
             spread == RatMul(RatAbs(adjusted_change), Half)
         IN  [point EXCEPT
                !.close = close,
                !.high = RatMul(RatMax(point.open, close), OnePlus(spread)),
                !.low = RatMul(RatMin(point.open, close), OneMinus(spread))]
    ELSE point

AdjustPoint(point, correlation_factor) ==
    IF OpenTruthy(point)
    THEN LET price_change    == RatDiv(RatSub(point.close, point.open), point.open)
             adjusted_change == RatMul(price_change, correlation_factor)
             close == RatMul(point.open, OnePlus(adjusted_change))
             spread == RatMul(RatAbs(adjusted_change), Half)
         IN  [point EXCEPT
                !.close = close,
                !.high = RatMul(RatMax(point.open, close), OnePlus(spread)),
                !.low = RatMul(RatMin(point.open, close), OneMinus(spread))]
    ELSE point

\* variant: the test for a correlation of 1.0 is missing
apply_correlation_adjustment_always(data, correlation_factor) ==
    [i \in 1..Len(data) |-> AdjustPoint(data[i], correlation_factor)]

apply_correlation_adjustment(data, correlation_factor) ==
    IF correlation_factor = One THEN data
    ELSE [i \in 1..Len(data) |-> AdjustPoint(data[i], correlation_factor)]

\* variant: the point itself is adjusted, not a copy of it
PointAfterCopy_alias(point, adjusted_point) == adjusted_point

\* adjusted_point = point.copy(): the assignments go to the copy, and the
\* point of the input list is what it was
PointAfterCopy(point, adjusted_point) == point

\* the list passed as data, after the call
DataAfterAdjustment(data, correlation_factor) ==
    IF correlation_factor = One THEN data
    ELSE [i \in 1..Len(data) |->
            PointAfterCopy(data[i], AdjustPoint(data[i], correlation_factor))]

\* ------------------------------------------------------------------------
\* Random draws
\* ------------------------------------------------------------------------

\* standard normal deviates a stream may deliver
ZTable == <<0, 1, -1, 2, -6>>

Seeds == 1..NumSeeds

\* the k-th deviate of the stream with a given seed
ZAt(seed, k) == ZTable[((seed + 2 * k) % Len(ZTable)) + 1]

\* np.random.normal(mu, sigma), k-th draw of the stream
Normal(mu, sigma, seed, k) == RatAdd(mu, RatMul(sigma, Int2Rat(ZAt(seed, k))))

\* ------------------------------------------------------------------------
\* create_correlated_data
\* ------------------------------------------------------------------------

base_price == 1000

\* variant: the open of a point is its own close
SyntheticPoint_ownclose(ts, ts_raw, o, h, l, c, v) ==
    [timestamp |-> ts, timestamp_raw |-> ts_raw,
     open |-> c, high |-> h, low |-> l, close |-> c, volume |-> v,
     origin |-> "generated"]

SyntheticPoint(ts, ts_raw, o, h, l, c, v) ==
    [timestamp |-> ts, timestamp_raw |-> ts_raw,
     open |-> o, high |-> h, low |-> l, close |-> c, volume |-> v,
     origin |-> "generated"]

\* the division by prev_base['close'] raises ZeroDivisionError
CreateCorrelatedRaises(base_data) ==
    \E i \in 2..Len(base_data) : RatIsZero(base_data[i - 1].close)

\* the point for index i (1-based) given the previous synthetic point
CorrelatedPoint(base_data, correlation, seed, i, prev) ==
    IF i = 1
    THEN SyntheticPoint(base_data[i].timestamp, base_data[i].timestamp_raw,
                        Int2Rat(base_price),
                        RatMul(Int2Rat(base_price), Rat(1002, 1000)),
                        RatMul(Int2Rat(base_price), Rat(998, 1000)),
                        Int2Rat(base_price), 1000000)
    ELSE LET base_change == RatDiv(RatSub(base_data[i].close, base_data[i - 1].close),
                                   base_data[i - 1].close)
             correlated_change == RatMul(base_change, correlation)
             random_factor == Normal(Int2Rat(0), Rat(1, 1000), seed, 2 * i - 3)
             total_change == RatAdd(correlated_change, random_factor)
             prev_close == prev.close
             new_close == RatMul(prev_close, OnePlus(total_change))
             volatility == RatAdd(RatAbs(total_change), Rat(5, 1000))
             band == RatMul(volatility, Half)
             open_price == prev.close
         IN  SyntheticPoint(base_data[i].timestamp, base_data[i].timestamp_raw,
                            Round2(open_price),
                            RoundMul2(new_close, OnePlus(band)),
                            RoundMul2(new_close, OneMinus(band)),
                            Round2(new_close),
                            Trunc(Normal(Int2Rat(1000000), Int2Rat(200000), seed,
                                         2 * i - 2)))

RECURSIVE CorrelatedPrefix(_, _, _, _)
CorrelatedPrefix(base_data, correlation, seed, n) ==
    IF n = 0 THEN <<>>
    ELSE LET before == CorrelatedPrefix(base_data, correlation, seed, n - 1)
         IN  Append(before,
                    CorrelatedPoint(base_data, correlation, seed, n,
                                    IF n = 1 THEN before ELSE before[n - 1]))

\* defined when ~CreateCorrelatedRaises(base_data)
create_correlated_data(base_data, correlation, seed) ==
    CorrelatedPrefix(base_data, correlation, seed, Len(base_data))

\* ------------------------------------------------------------------------
\* generate_standard_demo_data
\* ------------------------------------------------------------------------

DemoPoints == 24

\* the point for index i (0-based, as in the code) given the previous point
StandardPoint(seed, i, prev) ==
    LET ts == Now - Minutes(23 - i)
        change == Normal(Int2Rat(0), Rat(1, 100), seed, 2 * i + 1)
        price == IF i = 0 THEN Int2Rat(base_price)
                 ELSE RatMul(prev.close, OnePlus(change))
        volatility == Rat(5, 1000)
    IN  SyntheticPoint(SydneyTime(ts), SydneyIso(ts),
                       RoundMul2(price, Rat(999, 1000)),
                       RoundMul2(price, OnePlus(volatility)),
                       RoundMul2(price, OneMinus(volatility)),
                       Round2(price),
                       Trunc(Normal(Int2Rat(500000), Int2Rat(100000), seed, 2 * i + 2)))

RECURSIVE StandardPrefix(_, _)
StandardPrefix(seed, n) ==
    IF n = 0 THEN <<>>
    ELSE LET before == StandardPrefix(seed, n - 1)
         IN  Append(before,
                    StandardPoint(seed, n - 1, IF n = 1 THEN before ELSE before[n - 1]))

\* variant: the loop stops one point early
generate_standard_demo_data_short(seed) == StandardPrefix(seed, DemoPoints - 1)

generate_standard_demo_data(seed) == StandardPrefix(seed, DemoPoints)

\* ------------------------------------------------------------------------
\* generate_correlated_demo_data, after the benchmark fetches
\* ------------------------------------------------------------------------

\* if base_data and len(base_data) > 0: create_correlated_data(...)
\* else: generate_standard_demo_data(symbol)
DemoRaises(base_data) ==
    Truthy(base_data) /\ CreateCorrelatedRaises(base_data.list)

DemoData(base_data, symbol_info, seed) ==
    IF Truthy(base_data)
    THEN create_correlated_data(base_data.list, symbol_info.market_correlation, seed)
    ELSE generate_standard_demo_data(seed)

\* ------------------------------------------------------------------------
\* State
\* ------------------------------------------------------------------------

VARIABLES
    pc,           \* position in get_multi_strategy_data / generate_correlated_demo_data
    symbol,       \* argument symbol
    max_hours,    \* argument max_hours
    symbol_info,  \* the profile looked up for symbol
    status,       \* the status dictionary
    data,         \* the last value try_primary_symbol returned to the orchestrator
    base_data,    \* base_data of generate_correlated_demo_data
    idx,          \* position of the running for loop in its list
    result,       \* the series returned when pc = "done"
    lpc,          \* position in try_primary_symbol: idle, A, B, C, D, ret
    lsymbol,      \* argument symbol of try_primary_symbol
    lmax_hours,   \* argument max_hours of try_primary_symbol
    lret,         \* value returned by try_primary_symbol
    runs,         \* log: the calls of try_primary_symbol that returned, in order
    calls,        \* log: the provider calls of the current try_primary_symbol
    answer,       \* log: how the last of these provider calls ended
    request,      \* per request thread: the route and the symbols asked for
    frame,        \* per request thread: the local variables of its resolution
    statuses,     \* the status dictionaries, by the place they are kept in
    results,      \* per request thread: the results dictionary of /api/bulk
    position,     \* per request thread: position of /api/bulk in its symbols
    response,     \* per request thread: the HTTP response
    upstream,     \* the provider's answers so far, by (symbol, period, interval)
    raw,          \* the provider table a strategy hands to process_market_data,
                  \* where that call is examined on its own
    catalog,      \* the module-level dictionary SYMBOL_ALTERNATIVES
    variant       \* app_fixed / app_working: the request GET /api/stock/<symbol>
                  \* being served and the local variables of get_market_data

vars == <<pc, symbol, max_hours, symbol_info, status, data, base_data, idx, result,
          lpc, lsymbol, lmax_hours, lret, runs, calls, answer>>

orchestrator == <<pc, symbol, max_hours, symbol_info, status, data, base_data, idx,
                  result>>

server == <<request, frame, statuses, results, position, response, upstream>>

\* the values of max_hours a caller passes
MaxHoursValues == {24}

NoStatus ==
    [symbol |-> "", name |-> "", attempts |-> <<>>, data_source |-> <<>>,
     warnings |-> <<>>, proxy_used |-> FALSE]

\* no request to one of the variants
NoVariant ==
    [app |-> "none", pc |-> "idle", symbol |-> "", interval |-> "",
     attempts |-> <<>>, data |-> <<>>, response |-> [code |-> 0]]

\* no table in hand
NoTable == [tz |-> "naive", wellformed |-> TRUE, rows |-> <<>>]

\* the request threads of the server
Threads == {"t1", "t2"}

\* a dictionary: a function on the set of its keys
EmptyDict == [k \in {} |-> NoneData]

\* d[k] = v
Put(d, k, v) == [x \in DOMAIN d \cup {k} |-> IF x = k THEN v ELSE d[x]]

NoRequest == [route |-> "none", has_symbols |-> FALSE, symbols |-> <<>>]

NoResponse == [code |-> 0]

\* the local variables of get_multi_strategy_data and of the call of
\* try_primary_symbol it is waiting for, before the call
IdleFrame ==
    [pc |-> "idle", symbol |-> "", max_hours |-> 0,
     symbol_info |-> Info("", <<>>, <<>>, One), idx |-> 0,
     base_data |-> NoneData, result |-> NoneData,
     lpc |-> "idle", lsymbol |-> "", lmax_hours |-> 0, lret |-> NoneData]

Init ==
    /\ pc = "idle"
    /\ symbol = ""
    /\ max_hours = 0
    /\ symbol_info = Info("", <<>>, <<>>, One)
    /\ status = NoStatus
    /\ data = NoneData
    /\ base_data = NoneData
    /\ idx = 0
    /\ result = NoneData
    /\ lpc = "idle"
    /\ lsymbol = ""
    /\ lmax_hours = 0
    /\ lret = NoneData
    /\ runs = <<>>
    /\ calls = <<>>
    /\ answer = "none"
    /\ request = [t \in Threads |-> NoRequest]
    /\ frame = [t \in Threads |-> IdleFrame]
    /\ statuses = [t \in Threads |-> NoStatus]
    /\ results = [t \in Threads |-> EmptyDict]
    /\ position = [t \in Threads |-> 0]
    /\ response = [t \in Threads |-> NoResponse]
    /\ upstream = EmptyDict
    /\ raw = NoTable
    /\ catalog = SYMBOL_ALTERNATIVES
    /\ variant = NoVariant

\* ------------------------------------------------------------------------
\* try_primary_symbol
\* ------------------------------------------------------------------------

\* the call try_primary_symbol(sym, hours)
LadderCall(sym, hours) ==
    /\ lpc' = "A"
    /\ lsymbol' = sym
    /\ lmax_hours' = hours
    /\ lret' = NoneData
    /\ calls' = <<>>
    /\ answer' = "none"
    /\ UNCHANGED runs

\* return value
LadderReturn(value) ==
    /\ lpc' = "ret"
    /\ lret' = value
    /\ runs' = Append(runs, [stage |-> pc, symbol |-> lsymbol, ok |-> ~value.isNone])
    /\ UNCHANGED <<lsymbol, lmax_hours>>

\* variant: the next strategy is skipped and the last one is tried
LadderNext_last(next) ==
    /\ lpc' = "D"
    /\ UNCHANGED <<lsymbol, lmax_hours, lret, runs>>

\* fall through to the next strategy
LadderNext(next) ==
    /\ lpc' = next
    /\ UNCHANGED <<lsymbol, lmax_hours, lret, runs>>

\* an exception leaves try_primary_symbol
LadderRaise ==
    /\ lpc' = "raised"
    /\ UNCHANGED <<lsymbol, lmax_hours, lret, runs>>

\* variant: only network errors are caught
ExceptException_narrow(exc) == exc = "network"

\* except Exception as e: every exception of the provider is an Exception
ExceptException(exc) == exc \in ProviderErrors

\* not data.empty and len(data) > min_rows
Accepts(resp, min_rows) ==
    ~resp.raises /\ Len(resp.table.rows) > 0 /\ Len(resp.table.rows) > min_rows

\* how a provider call ended: an exception, an empty table, a table with too
\* few rows, or a table that is handed to process_market_data
AnswerOf(resp, min_rows) ==
    IF resp.raises THEN "raised"
    ELSE IF Len(resp.table.rows) = 0 THEN "empty"
    ELSE IF Accepts(resp, min_rows) THEN "rows"
    ELSE "few"

\* variant: Strategy C passes max_hours as it is
Strategies_undoubled(hours) ==
    ("A" :> [period |-> "2d", interval |-> "1m", min_rows |-> RungAMinRows,
             hours |-> hours, is_daily |-> FALSE, next |-> "B"]) @@
    ("B" :> [period |-> "5d", interval |-> "5m", min_rows |-> RungBMinRows,
             hours |-> hours, is_daily |-> FALSE, next |-> "C"]) @@
    ("C" :> [period |-> "1mo", interval |-> "1h", min_rows |-> 0,
             hours |-> hours, is_daily |-> FALSE, next |-> "D"]) @@
    ("D" :> [period |-> "5d", interval |-> "1d", min_rows |-> 0,
             hours |-> hours * 24, is_daily |-> TRUE, next |-> "ret"])

\* the parameters of the four strategies of try_primary_symbol
Strategies(hours) ==
    ("A" :> [period |-> "2d", interval |-> "1m", min_rows |-> RungAMinRows,
             hours |-> hours, is_daily |-> FALSE, next |-> "B"]) @@
    ("B" :> [period |-> "5d", interval |-> "5m", min_rows |-> RungBMinRows,
             hours |-> hours, is_daily |-> FALSE, next |-> "C"]) @@
    ("C" :> [period |-> "1mo", interval |-> "1h", min_rows |-> 0,
             hours |-> hours * 2, is_daily |-> FALSE, next |-> "D"]) @@
    ("D" :> [period |-> "5d", interval |-> "1d", min_rows |-> 0,
             hours |-> hours * 24, is_daily |-> TRUE, next |-> "ret"])

\* where one strategy leads given the provider's answer: the value of
\* process_market_data is returned when the table is accepted; an exception
\* is caught by the except clause of the strategy (or the one around them
\* all) and the next strategy follows; after the last one None is returned
StrategyOutcome(resp, p) ==
    IF resp.raises /\ ~ExceptException(resp.exc)
    THEN [to |-> "raised", value |-> NoneData]
    ELSE IF Accepts(resp, p.min_rows)
    THEN [to |-> "ret",
          value |-> process_market_data(resp.table, p.hours, p.is_daily)]
    ELSE IF p.next = "ret" THEN [to |-> "ret", value |-> NoneData]
    ELSE [to |-> p.next, value |-> NoneData]

\* one strategy of try_primary_symbol with its provider call
Strategy(p) ==
    \E resp \in Responses(p.interval) :
       LET out == StrategyOutcome(resp, p)
       IN  /\ calls' = Append(calls, <<lsymbol, p.period, p.interval>>)
           /\ answer' = AnswerOf(resp, p.min_rows)
           /\ IF out.to = "raised" THEN LadderRaise
              ELSE IF out.to = "ret" THEN LadderReturn(out.value)
              ELSE LadderNext(out.to)

\* Strategy A: 2-day period with 1-minute intervals
StrategyA ==
    /\ lpc = "A"
    /\ Strategy(Strategies(lmax_hours)["A"])
    /\ UNCHANGED orchestrator
    /\ UNCHANGED <<server, raw, catalog, variant>>

\* Strategy B: 5-day period with 5-minute intervals
StrategyB ==
    /\ lpc = "B"
    /\ Strategy(Strategies(lmax_hours)["B"])
    /\ UNCHANGED orchestrator
    /\ UNCHANGED <<server, raw, catalog, variant>>

\* Strategy C: 1-month period with 1-hour intervals
StrategyC ==
    /\ lpc = "C"
    /\ Strategy(Strategies(lmax_hours)["C"])
    /\ UNCHANGED orchestrator
    /\ UNCHANGED <<server, raw, catalog, variant>>

\* Strategy D: 5-day period with daily data; return None after it
StrategyD ==
    /\ lpc = "D"
    /\ Strategy(Strategies(lmax_hours)["D"])
    /\ UNCHANGED orchestrator
    /\ UNCHANGED <<server, raw, catalog, variant>>

\* ------------------------------------------------------------------------
\* get_multi_strategy_data
\* ------------------------------------------------------------------------

\* the status dictionary built on entry
NewStatus(sym, info) ==
    [symbol |-> sym, name |-> info.name, attempts |-> <<>>, data_source |-> <<>>,
     warnings |-> <<>>, proxy_used |-> FALSE]

\* status['attempts'].append(entry)
Attempt(st, entry) == [st EXCEPT !.attempts = Append(@, entry)]

\* variant: the attempt is not recorded
PrimarySuccess_noattempt(st) == [st EXCEPT !.data_source = <<"primary_symbol">>]

PrimarySuccess(st) ==
    Attempt([st EXCEPT !.data_source = <<"primary_symbol">>], <<"primary_success">>)

\* variant: the failure of the primary symbol is not recorded
PrimaryFailed_silent(st) == st

PrimaryFailed(st) == Attempt(st, <<"primary_failed">>)

AlternativeSuccess(st, alt_symbol, sym) ==
    [Attempt([st EXCEPT !.data_source = <<"alternative_symbol: ", alt_symbol>>],
             <<"alternative_success: ", alt_symbol>>)
       EXCEPT !.warnings =
          Append(@, <<"Using alternative symbol ", alt_symbol, " for ", sym>>)]

\* variant: the failed alternative is not recorded
AlternativeFailed_silent(st, alt_symbol) == st

AlternativeFailed(st, alt_symbol) == Attempt(st, <<"alternative_failed: ", alt_symbol>>)

ProxySuccess(st, proxy_symbol, sym, correlation) ==
    [Attempt([st EXCEPT !.data_source = <<"proxy_symbol: ", proxy_symbol>>],
             <<"proxy_success: ", proxy_symbol>>)
       EXCEPT !.warnings =
                 Append(@, <<"Using proxy ", proxy_symbol, " for ", sym,
                             " (correlation: ", correlation, ")">>),
              !.proxy_used = TRUE]

ProxyFailed(st, proxy_symbol) == Attempt(st, <<"proxy_failed: ", proxy_symbol>>)

\* variant: the proxy series is returned without adjustment
ProxyData_raw(series, info) == series

\* adjusted_data
ProxyData(series, info) ==
    ListData(apply_correlation_adjustment(series.list, info.market_correlation))

\* variant: the demo series is returned without its label and warning
DemoFallback_unlabelled(st, sym) == Attempt(st, <<"demo_fallback">>)

DemoFallback(st, sym) ==
    [Attempt([st EXCEPT !.data_source = <<"correlated_demo">>], <<"demo_fallback">>)
       EXCEPT !.warnings =
          Append(@, <<"No real data available for ", sym,
                      ", using correlated demo data">>)]

\* return value, status
Return(value, st) ==
    /\ result' = value
    /\ status' = st
    /\ pc' = "done"

LadderIdle ==
    lpc' = "idle" /\ UNCHANGED <<lsymbol, lmax_hours, lret, runs, calls, answer>>

\* entry: look the profile up, build status, call the ladder on the symbol
GetMultiStrategyData ==
    /\ pc = "idle"
    /\ \E sym \in RequestSymbols, hours \in MaxHoursValues :
          /\ symbol' = sym
          /\ max_hours' = hours
          /\ symbol_info' = LookupInfo(sym)
          /\ status' = NewStatus(sym, LookupInfo(sym))
          /\ LadderCall(sym, hours)
    /\ pc' = "strategy1"
    /\ UNCHANGED <<data, base_data, idx, result>>
    /\ UNCHANGED <<server, raw, catalog, variant>>

\* Strategy 1: the primary symbol's ladder has returned
Strategy1 ==
    /\ pc = "strategy1" /\ lpc = "ret"
    /\ data' = lret
    /\ IF ~lret.isNone
       THEN /\ Return(lret, PrimarySuccess(status))
            /\ UNCHANGED idx
       ELSE /\ status' = PrimaryFailed(status)
            /\ pc' = "strategy2"
            /\ idx' = 1
            /\ UNCHANGED result
    /\ LadderIdle
    /\ UNCHANGED <<symbol, max_hours, symbol_info, base_data>>
    /\ UNCHANGED <<server, raw, catalog, variant>>

\* Strategy 2, loop head: the next alternative symbol, or on to Strategy 3
Strategy2Next ==
    /\ pc = "strategy2" /\ lpc = "idle"
    /\ IF idx <= Len(AlternativesToTry(symbol_info))
       THEN /\ LadderCall(AlternativesToTry(symbol_info)[idx], max_hours)
            /\ UNCHANGED <<pc, idx>>
       ELSE /\ pc' = "strategy3"
            /\ idx' = 1
            /\ UNCHANGED <<lpc, lsymbol, lmax_hours, lret, runs, calls, answer>>
    /\ UNCHANGED <<symbol, max_hours, symbol_info, status, data, base_data, result>>
    /\ UNCHANGED <<server, raw, catalog, variant>>

\* Strategy 2, loop body: the alternative's ladder has returned
Strategy2 ==
    /\ pc = "strategy2" /\ lpc = "ret"
    /\ data' = lret
    /\ IF ~lret.isNone
       THEN /\ Return(lret, AlternativeSuccess(status, lsymbol, symbol))
            /\ UNCHANGED idx
       ELSE /\ status' = AlternativeFailed(status, lsymbol)
            /\ idx' = idx + 1
            /\ UNCHANGED <<pc, result>>
    /\ LadderIdle
    /\ UNCHANGED <<symbol, max_hours, symbol_info, base_data>>
    /\ UNCHANGED <<server, raw, catalog, variant>>

\* Strategy 3, loop head: the next proxy symbol, or on to Strategy 4, which
\* begins by calling the ladder on the first benchmark symbol
Strategy3Next ==
    /\ pc = "strategy3" /\ lpc = "idle"
    /\ IF idx <= Len(symbol_info.proxy_symbols)
       THEN /\ LadderCall(symbol_info.proxy_symbols[idx], max_hours)
            /\ UNCHANGED <<pc, idx>>
       ELSE /\ pc' = "demo_base"
            /\ idx' = 1
            /\ LadderCall(FirstBaseSymbol, BaseHours)
    /\ UNCHANGED <<symbol, max_hours, symbol_info, status, data, base_data, result>>
    /\ UNCHANGED <<server, raw, catalog, variant>>

\* Strategy 3, loop body: the proxy's ladder has returned
Strategy3 ==
    /\ pc = "strategy3" /\ lpc = "ret"
    /\ data' = lret
    /\ IF ~lret.isNone
       THEN /\ Return(ProxyData(lret, symbol_info),
                      ProxySuccess(status, lsymbol, symbol,
                                   symbol_info.market_correlation))
            /\ UNCHANGED idx
       ELSE /\ status' = ProxyFailed(status, lsymbol)
            /\ idx' = idx + 1
            /\ UNCHANGED <<pc, result>>
    /\ LadderIdle
    /\ UNCHANGED <<symbol, max_hours, symbol_info, base_data>>
    /\ UNCHANGED <<server, raw, catalog, variant>>

\* ------------------------------------------------------------------------
\* generate_correlated_demo_data and the end of Strategy 4
\* ------------------------------------------------------------------------

\* the ladder of ^GSPC has returned
DemoBase ==
    /\ pc = "demo_base" /\ lpc = "ret"
    /\ base_data' = lret
    /\ pc' = IF lret.isNone THEN "demo_loop" ELSE "demo_make"
    /\ idx' = 1
    /\ LadderIdle
    /\ UNCHANGED <<symbol, max_hours, symbol_info, status, data, result>>
    /\ UNCHANGED <<server, raw, catalog, variant>>

\* loop head over the other major indices
DemoLoopNext ==
    /\ pc = "demo_loop" /\ lpc = "idle"
    /\ IF idx <= Len(OtherBaseSymbols)
       THEN /\ LadderCall(OtherBaseSymbols[idx], BaseHours)
            /\ UNCHANGED pc
       ELSE /\ pc' = "demo_make"
            /\ UNCHANGED <<lpc, lsymbol, lmax_hours, lret, runs, calls, answer>>
    /\ UNCHANGED <<symbol, max_hours, symbol_info, status, data, base_data, idx, result>>
    /\ UNCHANGED <<server, raw, catalog, variant>>

\* loop body: base_data = try_primary_symbol(base_symbol, 24); break if truthy
DemoLoop ==
    /\ pc = "demo_loop" /\ lpc = "ret"
    /\ base_data' = lret
    /\ IF Truthy(lret)
       THEN pc' = "demo_make" /\ UNCHANGED idx
       ELSE idx' = idx + 1 /\ UNCHANGED pc
    /\ LadderIdle
    /\ UNCHANGED <<symbol, max_hours, symbol_info, status, data, result>>
    /\ UNCHANGED <<server, raw, catalog, variant>>

\* the series is generated and Strategy 4 returns it; an exception of
\* create_correlated_data propagates out of get_multi_strategy_data
Strategy4 ==
    /\ pc = "demo_make"
    /\ IF DemoRaises(base_data)
       THEN /\ pc' = "raised"
            /\ UNCHANGED <<status, result>>
       ELSE \E seed \in Seeds :
               Return(ListData(DemoData(base_data, symbol_info, seed)),
                      DemoFallback(status, symbol))
    /\ UNCHANGED <<symbol, max_hours, symbol_info, data, base_data, idx>>
    /\ UNCHANGED <<lpc, lsymbol, lmax_hours, lret, runs, calls, answer>>
    /\ UNCHANGED <<server, raw, catalog, variant>>

Next ==
    \/ GetMultiStrategyData
    \/ StrategyA
    \/ StrategyB
    \/ StrategyC
    \/ StrategyD
    \/ Strategy1
    \/ Strategy2Next
    \/ Strategy2
    \/ Strategy3Next
    \/ Strategy3
    \/ DemoBase
    \/ DemoLoopNext
    \/ DemoLoop
    \/ Strategy4

Spec == Init /\ [][Next]_vars

\* ------------------------------------------------------------------------
\* The routes /api/stock/<symbol> and /api/bulk, served by request threads
\* that share the provider; a thread's resolution is the code of
\* get_multi_strategy_data and try_primary_symbol on its own local variables
\* ------------------------------------------------------------------------

\* the symbols the requests of the threads ask for
ServedSymbols == {FirstBaseSymbol, UnknownSymbol}

\* the longest list of symbols in the body of a bulk request
BulkSymbols == <<FirstBaseSymbol, UnknownSymbol>>

\* the lists of symbols in the body of a bulk request
BulkLists == {SubSeq(BulkSymbols, 1, n) : n \in 0..Len(BulkSymbols)}

\* the route each thread serves a request of
RouteOf(t) == IF t = "t1" THEN "bulk" ELSE "stock"

\* number of rows of the tables the provider answers the threads with
ServedRows == 2

\* the answers of the provider to the threads: an exception or, at the
\* hourly and the daily interval, a table
ServedAnswers(interval) ==
    IF interval \in {"1h", "1d"} THEN {"raise", "swing", "zero"} ELSE {"raise"}

ServedResponse(ans, interval) ==
    IF ans = "raise" THEN Raise("network")
    ELSE [raises |-> FALSE, exc |-> "none",
          table |-> Table(ans, ServedRows, IntervalMinutes(interval))]

\* the window both routes ask for: get_multi_strategy_data(symbol, max_hours=24)
RouteHours == 24

\* the call try_primary_symbol(sym, hours)
FrameCall(f, sym, hours) ==
    [f EXCEPT !.lpc = "A", !.lsymbol = sym, !.lmax_hours = hours, !.lret = NoneData]

\* entry of get_multi_strategy_data up to its first call of the ladder
FrameEnter(sym, hours) ==
    FrameCall([IdleFrame EXCEPT !.pc = "strategy1", !.symbol = sym,
                                !.max_hours = hours,
                                !.symbol_info = LookupInfo(sym)],
              sym, hours)

\* variant: the status dictionary is created once and used again by the
\* next call
EnterStatus_reused(old, sym, info) ==
    [old EXCEPT !.symbol = sym, !.name = info.name]

\* status = {...}: a new dictionary for every call
EnterStatus(old, sym, info) == NewStatus(sym, info)

\* variant: the status dictionary is one module-level object
StatusSlot_shared(t) == "t1"

\* status is a local variable of the call: every thread has its own
StatusSlot(t) == t

\* one strategy of try_primary_symbol, given the provider's answer
FrameRung(f, resp) ==
    LET out == StrategyOutcome(resp, Strategies(f.lmax_hours)[f.lpc])
    IN  [f EXCEPT !.lpc = out.to, !.lret = out.value]

\* return value, status
FrameReturn(f, value, st) ==
    [f |-> [f EXCEPT !.pc = "done", !.result = value, !.lpc = "idle"], st |-> st]

\* one step of get_multi_strategy_data between two calls of the ladder: the
\* frame and the status after it
FrameStep(f, st, seed) ==
    LET ok == ~f.lret.isNone
        back == [f EXCEPT !.lpc = "idle"]
        alts == AlternativesToTry(f.symbol_info)
        proxies == f.symbol_info.proxy_symbols
    IN  CASE f.pc = "strategy1" ->
               IF ok THEN FrameReturn(f, f.lret, PrimarySuccess(st))
               ELSE [f |-> [back EXCEPT !.pc = "strategy2", !.idx = 1],
                     st |-> PrimaryFailed(st)]
          [] f.pc = "strategy2" /\ f.lpc = "idle" ->
               IF f.idx <= Len(alts)
               THEN [f |-> FrameCall(f, alts[f.idx], f.max_hours), st |-> st]
               ELSE [f |-> [f EXCEPT !.pc = "strategy3", !.idx = 1], st |-> st]
          [] f.pc = "strategy2" /\ f.lpc = "ret" ->
               IF ok
               THEN FrameReturn(f, f.lret, AlternativeSuccess(st, f.lsymbol, f.symbol))
               ELSE [f |-> [back EXCEPT !.idx = f.idx + 1],
                     st |-> AlternativeFailed(st, f.lsymbol)]
          [] f.pc = "strategy3" /\ f.lpc = "idle" ->
               IF f.idx <= Len(proxies)
               THEN [f |-> FrameCall(f, proxies[f.idx], f.max_hours), st |-> st]
               ELSE [f |-> FrameCall([f EXCEPT !.pc = "demo_base", !.idx = 1],
                                     FirstBaseSymbol, BaseHours),
                     st |-> st]
          [] f.pc = "strategy3" /\ f.lpc = "ret" ->
               IF ok
               THEN FrameReturn(f, ProxyData(f.lret, f.symbol_info),
                                ProxySuccess(st, f.lsymbol, f.symbol,
                                             f.symbol_info.market_correlation))
               ELSE [f |-> [back EXCEPT !.idx = f.idx + 1],
                     st |-> ProxyFailed(st, f.lsymbol)]
          [] f.pc = "demo_base" ->
               [f |-> [back EXCEPT !.base_data = f.lret, !.idx = 1,
                                   !.pc = IF f.lret.isNone THEN "demo_loop"
                                          ELSE "demo_make"],
                st |-> st]
          [] f.pc = "demo_loop" /\ f.lpc = "idle" ->
               IF f.idx <= Len(OtherBaseSymbols)
               THEN [f |-> FrameCall(f, OtherBaseSymbols[f.idx], BaseHours), st |-> st]
               ELSE [f |-> [f EXCEPT !.pc = "demo_make"], st |-> st]
          [] f.pc = "demo_loop" /\ f.lpc = "ret" ->
               [f |-> IF Truthy(f.lret)
                      THEN [back EXCEPT !.base_data = f.lret, !.pc = "demo_make"]
                      ELSE [back EXCEPT !.base_data = f.lret, !.idx = f.idx + 1],
                st |-> st]
          [] f.pc = "demo_make" ->
               IF DemoRaises(f.base_data)
               THEN [f |-> [f EXCEPT !.pc = "raised"], st |-> st]
               ELSE FrameReturn(f, ListData(DemoData(f.base_data, f.symbol_info, seed)),
                                DemoFallback(st, f.symbol))

\* the resolution is between two provider calls
FrameSteps(f) ==
    /\ f.pc \in {"strategy1", "strategy2", "strategy3", "demo_base", "demo_loop",
                 "demo_make"}
    /\ f.lpc \in {"idle", "ret"}

\* the resolution is at a provider call
FrameFetches(f) == f.lpc \in {"A", "B", "C", "D"}

\* the provider call the resolution is at
FrameKey(f) ==
    LET p == Strategies(f.lmax_hours)[f.lpc]
    IN  <<f.lsymbol, p.period, p.interval>>

\* if data is None or len(data) == 0: (the 404 branch of /api/stock)
NoDataBranch(value) == value.isNone \/ Len(value.list) = 0

\* 'success': data is not None and len(data) > 0
BulkSuccess(value) == ~value.isNone /\ Len(value.list) > 0

\* the body of the 200 answer of /api/stock
StockBody(sym, value, st) ==
    [symbol |-> sym, name |-> st.name, data |-> value.list,
     count |-> Len(value.list), data_source |-> st.data_source, status |-> st,
     timezone |-> "Australia/Sydney"]

\* results[symbol]
BulkEntry(value, st) ==
    [name |-> st.name,
     data |-> IF Truthy(value) THEN value.list ELSE <<>>,
     count |-> IF Truthy(value) THEN Len(value.list) ELSE 0,
     status |-> st,
     success |-> BulkSuccess(value)]

\* sum(1 for r in results.values() if r['success'])
SuccessfulCount(res) == Cardinality({k \in DOMAIN res : res[k].success})

\* the body of the 200 answer of /api/bulk
BulkBody(res, symbols) ==
    [results |-> res, total_symbols |-> Len(symbols),
     successful_symbols |-> SuccessfulCount(res),
     service |-> "Multi-Strategy Enhanced API", timezone |-> "Australia/Sydney"]

\* get_multi_strategy_data from a return of try_primary_symbol up to its
\* next provider call, or to its end
RECURSIVE FrameRun(_, _, _)
RECURSIVE FrameRunOn(_, _)
FrameRun(f, st, seed) ==
    IF FrameSteps(f) THEN FrameRunOn(FrameStep(f, st, seed), seed)
    ELSE [f |-> f, st |-> st]

FrameRunOn(after, seed) == FrameRun(after.f, after.st, seed)

\* a thread calls get_multi_strategy_data(sym, max_hours=24): the code up to
\* the first provider call
Call(t, sym) ==
    /\ frame' = [frame EXCEPT ![t] = FrameEnter(sym, RouteHours)]
    /\ statuses' = [statuses EXCEPT ![StatusSlot(t)] =
                       EnterStatus(@, sym, LookupInfo(sym))]

\* GET /api/stock/<symbol>, up to the first provider call
GetStockData(t) ==
    /\ RouteOf(t) = "stock"
    /\ request[t].route = "none"
    /\ \E sym \in ServedSymbols :
          /\ request' = [request EXCEPT ![t] =
                [route |-> "stock", has_symbols |-> FALSE, symbols |-> <<sym>>]]
          /\ Call(t, sym)
    /\ UNCHANGED <<results, position, response, upstream>>
    /\ UNCHANGED <<vars, raw, catalog, variant>>

\* POST /api/bulk: 400 without 'symbols'; else results = {} and the loop up to
\* the first provider call, or the 200 answer for an empty list
GetBulkStockData(t) ==
    /\ RouteOf(t) = "bulk"
    /\ request[t].route = "none"
    /\ \/ /\ request' = [request EXCEPT ![t] =
                [route |-> "bulk", has_symbols |-> FALSE, symbols |-> <<>>]]
          /\ response' = [response EXCEPT ![t] = [code |-> 400]]
          /\ UNCHANGED <<frame, statuses, position>>
       \/ \E symbols \in BulkLists :
             /\ request' = [request EXCEPT ![t] =
                   [route |-> "bulk", has_symbols |-> TRUE, symbols |-> symbols]]
             /\ position' = [position EXCEPT ![t] = 1]
             /\ IF symbols = <<>>
                THEN /\ response' = [response EXCEPT ![t] =
                           [code |-> 200, body |-> BulkBody(EmptyDict, symbols)]]
                     /\ UNCHANGED <<frame, statuses>>
                ELSE /\ Call(t, symbols[1])
                     /\ UNCHANGED response
    /\ UNCHANGED <<results, upstream>>
    /\ UNCHANGED <<vars, raw, catalog, variant>>

\* the end of /api/stock: 200, 404 when there is no data, 500 on an exception
StockResponse(t, f, st) ==
    /\ response' = [response EXCEPT ![t] =
          LET sym == request[t].symbols[1]
          IN  IF f.pc = "raised"
              THEN [code |-> 500, body |-> [symbol |-> sym, data |-> <<>>]]
              ELSE IF NoDataBranch(f.result)
              THEN [code |-> 404,
                    body |-> [symbol |-> sym, status |-> st, data |-> <<>>]]
              ELSE [code |-> 200, body |-> StockBody(sym, f.result, st)]]
    /\ frame' = [frame EXCEPT ![t] = f]
    /\ statuses' = [statuses EXCEPT ![StatusSlot(t)] = st]
    /\ UNCHANGED <<results, position>>

\* /api/bulk after get_multi_strategy_data ended: the 500 answer on an
\* exception; else results[symbol] = {...} and the call for the next symbol,
\* or after the loop the count and the 200 answer
BulkResponse(t, f, st) ==
    IF f.pc = "raised"
    THEN /\ response' = [response EXCEPT ![t] = [code |-> 500]]
         /\ frame' = [frame EXCEPT ![t] = f]
         /\ statuses' = [statuses EXCEPT ![StatusSlot(t)] = st]
         /\ UNCHANGED <<results, position>>
    ELSE LET res == Put(results[t], f.symbol, BulkEntry(f.result, st))
             symbols == request[t].symbols
         IN  /\ results' = [results EXCEPT ![t] = res]
             /\ position' = [position EXCEPT ![t] = @ + 1]
             /\ IF position[t] + 1 <= Len(symbols)
                THEN /\ frame' = [frame EXCEPT ![t] =
                            FrameEnter(symbols[position[t] + 1], RouteHours)]
                     /\ statuses' = [statuses EXCEPT ![StatusSlot(t)] =
                            EnterStatus(st, symbols[position[t] + 1],
                                        LookupInfo(symbols[position[t] + 1]))]
                     /\ UNCHANGED response
                ELSE /\ response' = [response EXCEPT ![t] =
                            [code |-> 200, body |-> BulkBody(res, symbols)]]
                     /\ frame' = [frame EXCEPT ![t] = IdleFrame]
                     /\ statuses' = [statuses EXCEPT ![StatusSlot(t)] = st]

\* the code after a provider call, up to the next provider call or to the
\* end of the request
AfterFetch(t, run) ==
    IF run.f.pc \notin {"done", "raised"}
    THEN /\ frame' = [frame EXCEPT ![t] = run.f]
         /\ statuses' = [statuses EXCEPT ![StatusSlot(t)] = run.st]
         /\ UNCHANGED <<results, position, response>>
    ELSE IF request[t].route = "stock"
    THEN StockResponse(t, run.f, run.st)
    ELSE BulkResponse(t, run.f, run.st)

\* a provider call of the thread's try_primary_symbol and the code after it;
\* the provider answers a (symbol, period, interval) the same way every time
Fetch(t) ==
    /\ FrameFetches(frame[t])
    /\ \E ans \in ServedAnswers(FrameKey(frame[t])[3]), seed \in Seeds :
          /\ FrameKey(frame[t]) \in DOMAIN upstream =>
                ans = upstream[FrameKey(frame[t])]
          /\ upstream' = Put(upstream, FrameKey(frame[t]), ans)
          /\ AfterFetch(t, FrameRun(FrameRung(frame[t],
                                              ServedResponse(ans, FrameKey(frame[t])[3])),
                                    statuses[StatusSlot(t)], seed))
    /\ UNCHANGED request
    /\ UNCHANGED <<vars, raw, catalog, variant>>

ServerNext ==
    \E t \in Threads :
       \/ GetStockData(t)
       \/ GetBulkStockData(t)
       \/ Fetch(t)

ServerSpec == Init /\ [][ServerNext]_<<vars, server>>

\* ------------------------------------------------------------------------
\* Vocabulary of the properties
\* ------------------------------------------------------------------------

Returned == pc = "done"

\* the runs of try_primary_symbol made in one stage, in order
StageRuns(stages) == SelectSeq(runs, LAMBDA r : r.stage \in stages)

AliasRuns == StageRuns({"strategy2"})

ProxyRuns == StageRuns({"strategy3"})

BaseRuns == StageRuns({"demo_base", "demo_loop"})

CandidateRuns == StageRuns({"strategy1", "strategy2", "strategy3"})

\* try_primary_symbol returned None for sym earlier in this resolution
FailedRun(sym) == \E i \in DOMAIN runs : runs[i].symbol = sym /\ ~runs[i].ok

\* rs is a prefix of list: the same symbols in the same order
RunsFollow(rs, list) ==
    /\ Len(rs) <= Len(list)
    /\ \A i \in DOMAIN rs : rs[i].symbol = list[i]

\* only the last run of rs may have succeeded
OnlyLastOk(rs) == \A i \in DOMAIN rs : rs[i].ok => i = Len(rs)

SomeOk(rs) == \E i \in DOMAIN rs : rs[i].ok

\* the listed aliases other than the canonical id, in listed order
OtherAliases(sym) == SelectSeq(LookupInfo(sym).alternatives, LAMBDA a : a # sym)

HasGenerated(series) == \E i \in DOMAIN series : series[i].origin = "generated"

\* ------------------------------------------------------------------------
\* Properties
\* ------------------------------------------------------------------------

\* C1: a result is labelled with alternative A only if the ladder failed for
\* the primary symbol and every alias listed before A, with proxy P only if
\* it failed for the primary, every alias and every proxy listed before P, and
\* 'correlated_demo' only if it failed for the primary, every alias and every
\* proxy.
C1_FallbackOnlyAfterFailure ==
    Returned =>
       LET alts == symbol_info.alternatives
           proxies == symbol_info.proxy_symbols
           src == status.data_source
       IN  /\ src[1] = "alternative_symbol: " =>
                /\ FailedRun(symbol)
                /\ \A k \in DOMAIN alts :
                      alts[k] = src[2] => \A j \in 1..(k - 1) : FailedRun(alts[j])
           /\ src[1] = "proxy_symbol: " =>
                /\ FailedRun(symbol)
                /\ \A j \in DOMAIN alts : FailedRun(alts[j])
                /\ \A k \in DOMAIN proxies :
                      proxies[k] = src[2] => \A j \in 1..(k - 1) : FailedRun(proxies[j])
           /\ src[1] = "correlated_demo" =>
                /\ FailedRun(symbol)
                /\ \A j \in DOMAIN alts : FailedRun(alts[j])
                /\ \A j \in DOMAIN proxies : FailedRun(proxies[j])

\* the second proxy of ^AXKO is returned, after primary, aliases and ^AXJO
C1_Witness ==
    /\ Returned
    /\ symbol = "^AXKO"
    /\ status.data_source = <<"proxy_symbol: ", "^AORD">>

\* C2: get_multi_strategy_data never raises an exception.
C2_NeverRaises == pc # "raised"

\* C3: generate_correlated_demo_data never raises and returns a non-empty
\* series, whatever the ladder returned for the benchmark symbols.
C3_SynthesizeSucceeds ==
    [][pc = "demo_make" => (pc' = "done" /\ Truthy(result'))]_vars

\* C4: every point of every returned series has a close that is present.
C4_ClosePresent ==
    Returned => \A i \in DOMAIN result.list : ~IsNone(result.list[i].close)

\* a proxy series adjusted with a correlation other than 1.0, holding a point
\* whose open is missing
C4_Witness ==
    /\ Returned
    /\ status.proxy_used
    /\ symbol_info.market_correlation # One
    /\ \E i \in DOMAIN result.list : IsNone(result.list[i].open)

\* C5: a series produced by the synthetic generator is labelled
\* 'correlated_demo', has a warning and proxy_used = false; a result labelled
\* primary, alias or proxy holds no generated point.
C5_SyntheticTagged ==
    Returned =>
       /\ HasGenerated(result.list) =>
             /\ status.data_source = <<"correlated_demo">>
             /\ Len(status.warnings) > 0
             /\ ~status.proxy_used
       /\ status.data_source[1] \in {"primary_symbol", "alternative_symbol: ",
                                     "proxy_symbol: ", "correlated_demo"}
       /\ status.data_source # <<"correlated_demo">> =>
             \A i \in DOMAIN result.list : result.list[i].origin = "provider"

\* a correlated walk derived from a benchmark series
C5_Witness ==
    /\ Returned
    /\ HasGenerated(result.list)
    /\ Truthy(base_data)
    /\ Len(result.list) = Len(base_data.list)

\* C6: when the ladder succeeds on the canonical symbol the result is exactly
\* the ladder's series, labelled 'primary_symbol', with no warning, proxy_used
\* false and attempts = ['primary_success'], and nothing else is fetched.
C6_PrimarySuccess ==
    (runs # <<>> /\ runs[1].ok) =>
       /\ runs = <<[stage |-> "strategy1", symbol |-> symbol, ok |-> TRUE]>>
       /\ pc \in {"strategy1", "done"}
       /\ Returned =>
             /\ result = lret
             /\ status.data_source = <<"primary_symbol">>
             /\ status.warnings = <<>>
             /\ ~status.proxy_used
             /\ status.attempts = << <<"primary_success">> >>

\* the primary symbol answered on the first rung with more than 10 points
C6_Witness ==
    /\ Returned
    /\ status.data_source = <<"primary_symbol">>
    /\ calls = << <<symbol, "2d", "1m">> >>
    /\ Len(result.list) > RungAMinRows

\* C7: the alias stage runs the ladder on the listed aliases other than the
\* canonical id, in listed order, never on the canonical id; the first success
\* ends the resolution: the ladder's series is returned unadjusted, labelled
\* with that alias, with exactly one warning, and no later alias and no proxy
\* is fetched.
C7_AliasStage ==
    /\ RunsFollow(AliasRuns, OtherAliases(symbol))
    /\ \A i \in DOMAIN AliasRuns : AliasRuns[i].symbol # symbol
    /\ OnlyLastOk(AliasRuns)
    /\ (ProxyRuns # <<>> \/ BaseRuns # <<>>) =>
          Len(AliasRuns) = Len(OtherAliases(symbol))
    /\ SomeOk(AliasRuns) =>
          /\ runs[Len(runs)] = AliasRuns[Len(AliasRuns)]
          /\ ProxyRuns = <<>> /\ BaseRuns = <<>>
          /\ pc \in {"strategy2", "done"}
          /\ Returned =>
                /\ result = lret
                /\ status.data_source = <<"alternative_symbol: ", lsymbol>>
                /\ status.warnings =
                      << <<"Using alternative symbol ", lsymbol, " for ", symbol>> >>
                /\ ~status.proxy_used

\* the second listed alias of ^AXJO is returned after the first one failed
C7_Witness ==
    /\ Returned
    /\ symbol = "^AXJO"
    /\ status.data_source = <<"alternative_symbol: ", "IOZ.AX">>
    /\ Len(AliasRuns) = 2

\* C8: when the first succeeding candidate is proxy P the result is
\* apply_correlation_adjustment of P's ladder output with the profile's
\* market_correlation, labelled with P, proxy_used is true and the only warning
\* names P and the coefficient; proxies are tried in listed order and none
\* after P is fetched.
C8_ProxyStage ==
    /\ RunsFollow(ProxyRuns, LookupInfo(symbol).proxy_symbols)
    /\ OnlyLastOk(ProxyRuns)
    /\ SomeOk(ProxyRuns) =>
          /\ runs[Len(runs)] = ProxyRuns[Len(ProxyRuns)]
          /\ BaseRuns = <<>>
          /\ pc \in {"strategy3", "done"}
          /\ Returned =>
                LET correlation == LookupInfo(symbol).market_correlation
                IN  /\ ~lret.isNone /\ ~result.isNone
                    /\ result.list =
                          apply_correlation_adjustment(lret.list, correlation)
                    /\ status.data_source = <<"proxy_symbol: ", lsymbol>>
                    /\ status.proxy_used
                    /\ status.warnings =
                          << <<"Using proxy ", lsymbol, " for ", symbol,
                               " (correlation: ", correlation, ")">> >>

\* ^AXJO stands in for ^AXKO and the adjustment changed the series
C8_Witness ==
    /\ Returned
    /\ symbol = "^AXKO"
    /\ status.data_source = <<"proxy_symbol: ", "^AXJO">>
    /\ result # lret

\* C9: a symbol outside the catalog has the profile (no other alias, no
\* proxy, correlation 1.0); after the primary ladder fails only benchmark
\* symbols are fetched, and the result has attempts = ['primary_failed',
\* 'demo_fallback'] and data_source 'correlated_demo'.
C9_UnknownSymbol ==
    (pc # "idle" /\ symbol \notin DOMAIN SYMBOL_ALTERNATIVES) =>
       /\ symbol_info = Info(symbol, <<symbol>>, <<>>, One)
       /\ AliasRuns = <<>> /\ ProxyRuns = <<>>
       /\ \A i \in DOMAIN runs : i > 1 => runs[i].stage \in {"demo_base", "demo_loop"}
       /\ (Returned /\ ~runs[1].ok) =>
             /\ status.attempts = << <<"primary_failed">>, <<"demo_fallback">> >>
             /\ status.data_source = <<"correlated_demo">>

\* the unknown symbol ends with the standalone 24-point walk
C9_Witness ==
    /\ Returned
    /\ symbol = UnknownSymbol
    /\ status.data_source = <<"correlated_demo">>
    /\ base_data.isNone
    /\ Len(result.list) = DemoPoints

\* the entry of status['attempts'] that records a run of the ladder: it names
\* the stage and the outcome and, after the primary, the symbol
Records(entry, run) ==
    IF run.stage = "strategy1"
    THEN entry = <<IF run.ok THEN "primary_success" ELSE "primary_failed">>
    ELSE /\ Len(entry) = 2
         /\ entry[2] = run.symbol
         /\ entry[1] \in (IF run.ok
                          THEN {"alternative_success: ", "proxy_success: "}
                          ELSE {"alternative_failed: ", "proxy_failed: "})

\* every run of rs is recorded by an entry of entries, in the same order
RECURSIVE RecordedInOrder(_, _)
RecordedInOrder(rs, entries) ==
    IF rs = <<>> THEN TRUE
    ELSE IF entries = <<>> THEN FALSE
    ELSE IF Records(Head(entries), Head(rs))
         THEN RecordedInOrder(Tail(rs), Tail(entries))
         ELSE RecordedInOrder(rs, Tail(entries))

\* C10 as stated: at the end of a resolution status['attempts'] holds, in
\* order, one entry with the outcome for every symbol on which the ladder was
\* run during the resolution.
C10_EveryRunRecorded == Returned => RecordedInOrder(runs, status.attempts)

\* the entry written for a run on the primary, an alias or a proxy
EntryOf(run) ==
    CASE run.stage = "strategy1" ->
           <<IF run.ok THEN "primary_success" ELSE "primary_failed">>
      [] run.stage = "strategy2" ->
           <<IF run.ok THEN "alternative_success: " ELSE "alternative_failed: ",
             run.symbol>>
      [] run.stage = "strategy3" ->
           <<IF run.ok THEN "proxy_success: " ELSE "proxy_failed: ", run.symbol>>

\* C10 (amended): at the end of a resolution status['attempts'] holds, in
\* order, one entry with the outcome for every run of the ladder on the
\* primary, an alias or a proxy; the runs on benchmark symbols during
\* synthesis have no entry of their own, synthesis adds the single entry
\* 'demo_fallback'.
C10_CandidateRunsRecorded ==
    Returned =>
       status.attempts =
          [i \in DOMAIN CandidateRuns |-> EntryOf(CandidateRuns[i])]
             \o (IF BaseRuns # <<>> THEN << <<"demo_fallback">> >> ELSE <<>>)

\* ^AXKO falls through aliases and proxies and a benchmark of the loop answers
C10_Witness ==
    /\ Returned
    /\ symbol = "^AXKO"
    /\ Len(CandidateRuns) = 6
    /\ \E i \in DOMAIN BaseRuns : BaseRuns[i].stage = "demo_loop" /\ BaseRuns[i].ok

\* ------------------------------------------------------------------------
\* Properties of the routes and of concurrent resolutions
\* ------------------------------------------------------------------------

\* C11: whenever get_multi_strategy_data returns, its series is neither None
\* nor empty, whichever stage produced it; so the 404 branch of /api/stock is
\* not taken and the entry of /api/bulk has success = true.
C11_NonEmptyResult ==
    Returned =>
       /\ ~result.isNone
       /\ Len(result.list) > 0
       /\ ~NoDataBranch(result)
       /\ BulkSuccess(result)

\* the smallest series: one point, from a one-row table of a proxy
C11_Witness ==
    /\ Returned
    /\ status.proxy_used
    /\ Len(result.list) = 1

\* the thread's status dictionary
ThreadStatus(t) == statuses[StatusSlot(t)]

\* /api/bulk has answered 200
BulkAnswered(t) == request[t].route = "bulk" /\ response[t].code = 200

\* /api/stock has answered 200
StockAnswered(t) == request[t].route = "stock" /\ response[t].code = 200

Synthetic(st) == st.data_source = <<"correlated_demo">>

\* C12: successful_symbols of the bulk summary is the number of requested
\* symbols resolved by non-synthetic means; a symbol resolved by the
\* synthetic generator is not counted.
C12_CountsNonSynthetic ==
    \A t \in Threads :
       BulkAnswered(t) =>
          LET res == response[t].body.results
          IN  response[t].body.successful_symbols =
                 Cardinality({k \in DOMAIN res : ~Synthetic(res[k].status)})

\* the elements of a list
Range(list) == {list[i] : i \in DOMAIN list}

\* C13: the bulk operation returns a mapping with an entry for every
\* requested symbol; a failure while resolving one symbol never makes the
\* bulk request fail as a unit.
C13_BulkNeverFailsAsUnit ==
    \A t \in Threads :
       (request[t].route = "bulk" /\ request[t].has_symbols) =>
          /\ frame[t].pc # "raised"
          /\ response[t].code \in {0, 200}
          /\ response[t].code = 200 =>
                DOMAIN response[t].body.results = Range(request[t].symbols)

\* the status records returned so far by get_multi_strategy_data to the
\* routes
ReturnedStatuses ==
    {response[t].body.status : t \in {u \in Threads : StockAnswered(u)}}
       \cup UNION {{results[t][k].status : k \in DOMAIN results[t]} : t \in Threads}

\* the symbols for which get_multi_strategy_data raised
RaisedSymbols == {frame[t].symbol : t \in {u \in Threads : frame[u].pc = "raised"}}

\* C14: two runs of get_multi_strategy_data for the same symbol against the
\* same answers of the provider yield the same data_source and the same
\* attempts (and both return, or both raise); the random draws change only
\* the values of a synthetic series.
C14_SameSourceTwice ==
    /\ \A a, b \in ReturnedStatuses :
          a.symbol = b.symbol =>
             a.data_source = b.data_source /\ a.attempts = b.attempts
    /\ \A a \in ReturnedStatuses : a.symbol \notin RaisedSymbols

\* both threads resolved ZZZZ by synthesis, with different random draws
C14_Witness ==
    /\ StockAnswered("t2")
    /\ UnknownSymbol \in DOMAIN results["t1"]
    /\ Synthetic(response["t2"].body.status)
    /\ response["t2"].body.symbol = UnknownSymbol
    /\ response["t2"].body.data # results["t1"][UnknownSymbol].data

\* get_multi_strategy_data run alone, from frame f and status st, against
\* the answers up of the provider; known is false when up lacks an answer.
\* Of the last step only the status is computed, not the generated series.
RECURSIVE AloneRun(_, _, _)
RECURSIVE AloneRunOn(_, _)
AloneRun(f, st, up) ==
    IF f.pc \in {"done", "raised"} \/ f.lpc = "raised"
    THEN [f |-> f, st |-> st, known |-> TRUE]
    ELSE IF FrameFetches(f)
    THEN IF FrameKey(f) \in DOMAIN up
         THEN AloneRun(FrameRung(f, ServedResponse(up[FrameKey(f)], FrameKey(f)[3])),
                       st, up)
         ELSE [f |-> f, st |-> st, known |-> FALSE]
    ELSE IF f.pc = "demo_make"
    THEN IF DemoRaises(f.base_data)
         THEN [f |-> [f EXCEPT !.pc = "raised"], st |-> st, known |-> TRUE]
         ELSE [f |-> [f EXCEPT !.pc = "done"], st |-> DemoFallback(st, f.symbol),
               known |-> TRUE]
    ELSE AloneRunOn(FrameStep(f, st, 1), up)

AloneRunOn(after, up) == AloneRun(after.f, after.st, up)

Alone(sym, up) ==
    AloneRun(FrameEnter(sym, RouteHours), NewStatus(sym, LookupInfo(sym)), up)

\* st is what the run alone returned
AsAlone(st, alone) ==
    /\ alone.known
    /\ alone.f.pc = "done"
    /\ st.symbol = alone.st.symbol
    /\ st.data_source = alone.st.data_source
    /\ st.attempts = alone.st.attempts
    /\ st.warnings = alone.st.warnings

\* every entry of st names a candidate of sym, and none occurs twice
OwnEntries(st, sym) ==
    /\ st.symbol = sym
    /\ \A i \in DOMAIN st.attempts :
          /\ Len(st.attempts[i]) = 2 =>
                st.attempts[i][2] \in Range(LookupInfo(sym).alternatives)
                                         \cup Range(LookupInfo(sym).proxy_symbols)
          /\ \A j \in DOMAIN st.attempts : st.attempts[j] = st.attempts[i] => j = i

\* C15: when resolutions run concurrently, under any interleaving of their
\* provider calls, each returns the data_source, attempts and warnings it
\* returns running alone against the same answers of the provider, and no
\* status record ever holds an entry of another resolution.
C15_NoInterference ==
    \A t \in Threads :
       /\ StockAnswered(t) =>
             AsAlone(response[t].body.status, Alone(request[t].symbols[1], upstream))
       /\ \A k \in DOMAIN results[t] :
             AsAlone(results[t][k].status, Alone(k, upstream))
       /\ frame[t].pc = "raised" =>
             Alone(frame[t].symbol, upstream).f.pc = "raised"
       /\ frame[t].pc \notin {"idle"} => OwnEntries(ThreadStatus(t), frame[t].symbol)

\* both resolutions are at a provider call, each past the failure of its
\* primary symbol, for different symbols
C15_Witness ==
    /\ FrameFetches(frame["t1"]) /\ FrameFetches(frame["t2"])
    /\ frame["t1"].symbol # frame["t2"].symbol
    /\ ThreadStatus("t1").attempts # <<>>
    /\ ThreadStatus("t2").attempts # <<>>

\* ------------------------------------------------------------------------
\* Properties of try_primary_symbol
\* ------------------------------------------------------------------------

\* the provider calls of try_primary_symbol(sym, ...), in source order
RungCalls(sym) ==
    << <<sym, "2d", "1m">>, <<sym, "5d", "5m">>, <<sym, "1mo", "1h">>,
       <<sym, "5d", "1d">> >>

\* the ways a provider call fails to produce an accepted table
FailedAnswers == {"raised", "empty", "few"}

LadderReturned == lpc = "ret"

\* C16: try_primary_symbol returns None only after all four rungs have been
\* attempted; a rung whose rows are all dropped by process_market_data is
\* followed by the next rung.
C16_NoneOnlyAfterAllRungs ==
    (LadderReturned /\ lret.isNone) => calls = RungCalls(lsymbol)

\* C17: a series returned from rung 1 has more than 10 points, a series
\* returned from rung 2 has more than 5 points, and one returned from rung 3
\* or 4 is not empty.
C17_NormalizedThresholds ==
    (LadderReturned /\ ~lret.isNone) =>
       /\ Len(calls) = 1 => Len(lret.list) > RungAMinRows
       /\ Len(calls) = 2 => Len(lret.list) > RungBMinRows
       /\ Len(calls) >= 3 => Len(lret.list) > 0

\* C18: try_primary_symbol never propagates an exception: whatever the
\* provider raises and whatever rows it returns, the call returns None or a
\* series that is not empty; an exception of the provider is followed by the
\* next rung or, on the last rung, by the return of None.
C18_LadderNeverRaises ==
    /\ lpc # "raised"
    /\ LadderReturned => (lret = NoneData \/ Truthy(lret))
    /\ (answer = "raised" /\ lpc # "idle") =>
          \/ lpc \in {"B", "C", "D"} /\ Len(calls) < Len(RungCalls(lsymbol))
          \/ LadderReturned /\ lret = NoneData /\ calls = RungCalls(lsymbol)

\* the provider raised on the last rung and None is returned
C18_Witness ==
    /\ LadderReturned
    /\ answer = "raised"
    /\ lret = NoneData
    /\ Len(calls) = 4

\* C19: the provider calls of one try_primary_symbol are (2d, 1m), (5d, 5m),
\* (1mo, 1h), (5d, 1d) for its symbol, in this order, each at most once; a
\* call is issued only after the call before it failed, and none after a
\* table was accepted or the function returned.
C19_RungOrder ==
    [][/\ Len(calls') <= Len(RungCalls(lsymbol'))
       /\ \A i \in DOMAIN calls' :
             i <= Len(RungCalls(lsymbol')) => calls'[i] = RungCalls(lsymbol')[i]
       /\ calls' # calls =>
             \/ calls' = <<>> /\ lpc' = "A"
             \/ /\ lpc \in {"A", "B", "C", "D"}
                /\ Len(calls) < Len(RungCalls(lsymbol))
                /\ calls' = Append(calls, RungCalls(lsymbol)[Len(calls) + 1])
                /\ calls # <<>> => answer \in FailedAnswers
      ]_vars

\* the third rung is accepted after the first two failed
C19_Witness ==
    /\ LadderReturned
    /\ Len(calls) = 3
    /\ answer = "rows"
    /\ Truthy(lret)

\* ------------------------------------------------------------------------
\* Order of the stages
\* ------------------------------------------------------------------------

\* TryPrimary, TryAliases, TryProxies, Synthesize, and the end of the call
StageOf(p) ==
    CASE p = "idle" -> 0
      [] p = "strategy1" -> 1
      [] p = "strategy2" -> 2
      [] p = "strategy3" -> 3
      [] p \in {"demo_base", "demo_loop", "demo_make"} -> 4
      [] p \in {"done", "raised"} -> 5

AllFailed(rs) == \A i \in DOMAIN rs : ~rs[i].ok

\* rs are runs on exactly the symbols of list, in order
RunsCover(rs, list) == Len(rs) = Len(list) /\ RunsFollow(rs, list)

\* C20: a resolution visits TryPrimary, TryAliases, TryProxies, Synthesize
\* and Done in this order and never returns to an earlier stage; it leaves a
\* stage for the next one only when every candidate of the stage has failed,
\* and it reaches Done from the stage in which a candidate first succeeded.
C20_StagesForward ==
    [][StageOf(pc') # StageOf(pc) =>
         /\ StageOf(pc') > StageOf(pc)
         /\ pc' # "done" => StageOf(pc') = StageOf(pc) + 1
         /\ (pc = "strategy1" /\ pc' # "done") =>
               runs = <<[stage |-> "strategy1", symbol |-> symbol, ok |-> FALSE]>>
         /\ (pc = "strategy2" /\ pc' # "done") =>
               RunsCover(AliasRuns, OtherAliases(symbol)) /\ AllFailed(AliasRuns)
         /\ (pc = "strategy3" /\ pc' # "done") =>
               /\ RunsCover(ProxyRuns, LookupInfo(symbol).proxy_symbols)
               /\ AllFailed(ProxyRuns)
         /\ pc' = "raised" => pc = "demo_make"
         /\ (pc' = "done" /\ pc # "demo_make") =>
               /\ pc \in {"strategy1", "strategy2", "strategy3"}
               /\ runs[Len(runs)].ok
               /\ runs[Len(runs)].stage = pc
               /\ AllFailed(SubSeq(runs, 1, Len(runs) - 1))
      ]_vars

\* ^HSI went through every stage: both aliases and both proxies failed
C20_Witness ==
    /\ Returned
    /\ symbol = "^HSI"
    /\ status.data_source = <<"correlated_demo">>
    /\ Len(AliasRuns) = 2
    /\ Len(ProxyRuns) = 2

\* the stages in which a candidate of the symbol is fetched, and those of
\* generate_correlated_demo_data
CandidateStages == {"strategy1", "strategy2", "strategy3"}

DemoStages == {"demo_base", "demo_loop"}

\* C21 (as stated): within one resolution try_primary_symbol is run at most
\* once for any symbol, synthesis included.
C21_AtMostOncePerSymbol ==
    \A i, j \in DOMAIN runs : runs[i].symbol = runs[j].symbol => i = j

\* C21 (amended): among the primary, alias and proxy runs no symbol occurs
\* twice, and among the benchmark runs of synthesis no symbol occurs twice;
\* a symbol is run a second time only as a benchmark of synthesis after it
\* failed as a candidate.
C21_OncePerPhase ==
    \A i, j \in DOMAIN runs :
       (i < j /\ runs[i].symbol = runs[j].symbol) =>
          /\ runs[i].stage \in CandidateStages
          /\ ~runs[i].ok
          /\ runs[j].stage \in DemoStages

\* ^DJI failed as the primary symbol and is fetched again as the second
\* benchmark symbol of synthesis
C21_Witness ==
    /\ symbol = "^DJI"
    /\ \E i, j \in DOMAIN runs :
          /\ i < j
          /\ runs[i].symbol = "^DJI" /\ runs[i].stage = "strategy1"
          /\ runs[j].symbol = "^DJI" /\ runs[j].stage = "demo_loop"

\* ------------------------------------------------------------------------
\* Termination
\* ------------------------------------------------------------------------

\* the position of a stage in the text of get_multi_strategy_data and
\* generate_correlated_demo_data
StageNumber(stage) ==
    CASE stage = "idle" -> 0
      [] stage = "strategy1" -> 1
      [] stage = "strategy2" -> 2
      [] stage = "strategy3" -> 3
      [] stage = "demo_base" -> 4
      [] stage = "demo_loop" -> 5
      [] stage = "demo_make" -> 6
      [] OTHER -> 7

\* the position of a strategy in the text of try_primary_symbol
RungNumber(rung) ==
    CASE rung = "idle" -> 0
      [] rung = "A" -> 1
      [] rung = "B" -> 2
      [] rung = "C" -> 3
      [] rung = "D" -> 4
      [] OTHER -> 5

\* how far the resolution has come: stage, then position of the stage's
\* loop, then strategy of the running ladder
Progress == StageNumber(pc) * 1000 + idx * 10 + RungNumber(lpc)

\* the provider calls of one run of try_primary_symbol
MaxLadderCalls == 4

\* the runs of try_primary_symbol of one resolution of sym: the primary, the
\* aliases other than the canonical id, the proxies, the benchmark symbols
MaxLadderRuns(sym) ==
    1 + Len(OtherAliases(sym)) + Len(LookupInfo(sym).proxy_symbols)
      + 1 + Len(OtherBaseSymbols)

\* every step brings the resolution forward, within the bounds on provider
\* calls and ladder runs
BoundedStep ==
    /\ Progress' > Progress
    /\ Len(calls') <= MaxLadderCalls
    /\ Len(runs') <= MaxLadderRuns(symbol')

\* C22: every resolution terminates in Done: a ladder run makes at most 4
\* provider calls, a resolution runs the ladder at most 1 + aliases +
\* proxies + 4 times, every step brings it forward, and it ends by returning
\* a series and its status, never otherwise.
C22_TerminatesInDone == [][BoundedStep /\ pc' # "raised"]_vars

\* ------------------------------------------------------------------------
\* The shape of status['attempts']
\* ------------------------------------------------------------------------

FailureEntries == {"primary_failed", "alternative_failed: ", "proxy_failed: "}

TerminalEntries ==
    {"primary_success", "alternative_success: ", "proxy_success: ", "demo_fallback"}

PrimaryEntries == {"primary_failed", "primary_success"}

AliasEntries == {"alternative_failed: ", "alternative_success: "}

ProxyEntries == {"proxy_failed: ", "proxy_success: "}

\* the data_source that goes with a terminal entry
SourceOf(entry) ==
    CASE entry[1] = "primary_success" -> <<"primary_symbol">>
      [] entry[1] = "alternative_success: " -> <<"alternative_symbol: ", entry[2]>>
      [] entry[1] = "proxy_success: " -> <<"proxy_symbol: ", entry[2]>>
      [] OTHER -> <<"correlated_demo">>

\* C23: when status is returned, attempts is zero or more failure entries
\* followed by exactly one terminal entry; the first entry is the primary's
\* and the only one of the primary, every alias entry precedes every proxy
\* entry, and the terminal entry agrees with data_source.
C23_AttemptsShape ==
    Returned =>
       LET a == status.attempts
           n == Len(a)
       IN  /\ n >= 1
           /\ \A i \in 1..(n - 1) : a[i][1] \in FailureEntries
           /\ a[n][1] \in TerminalEntries
           /\ \A i \in 1..n : (a[i][1] \in PrimaryEntries) <=> (i = 1)
           /\ \A i, j \in 1..n :
                 (a[i][1] \in AliasEntries /\ a[j][1] \in ProxyEntries) => i < j
           /\ status.data_source = SourceOf(a[n])

\* ^AFLI: the primary and the alias fail, the first proxy fails, the second
\* succeeds
C23_Witness ==
    /\ Returned
    /\ status.attempts = <<<<"primary_failed">>, <<"alternative_failed: ", "XFL.AX">>,
                           <<"proxy_failed: ", "^AXJO">>, <<"proxy_success: ", "IOZ.AX">>>>

\* ------------------------------------------------------------------------
\* apply_correlation_adjustment on its own: the call of line 154 for any
\* series the ladder may have returned for a proxy and any coefficient
\* ------------------------------------------------------------------------

\* longest series passed to the adjustment
MaxSeries == 2

\* the values of a row: a rising bar, a falling bar, a wide bar, a row
\* without open, high and low, a row of zeros
AdjustRows ==
    {RawRow(0, Int2Rat(100), Int2Rat(103), Int2Rat(99), Int2Rat(102), Int2Rat(5000)),
     RawRow(0, Int2Rat(100), Int2Rat(101), Int2Rat(97), Int2Rat(98), Int2Rat(4000)),
     RawRow(0, Int2Rat(100), Int2Rat(126), Int2Rat(99), Int2Rat(125), Int2Rat(7001)),
     RawRow(0, None, None, None, Int2Rat(50), None),
     RawRow(0, Int2Rat(0), Int2Rat(0), Int2Rat(0), Int2Rat(0), Int2Rat(0))}

\* the series process_market_data makes of hourly rows with these values
AdjustSeries(rows) ==
    [i \in 1..Len(rows) |->
       DataPoint([rows[i] EXCEPT !.ts = Now - Minutes(Len(rows) - i)], "UTC")]

AdjustInputs ==
    {AdjustSeries(rows) : rows \in UNION {[1..n -> AdjustRows] : n \in 1..MaxSeries}}

\* market_correlation: the coefficients of the catalog, and none at all
Correlations ==
    {SYMBOL_ALTERNATIVES[k].market_correlation : k \in DOMAIN SYMBOL_ALTERNATIVES}
       \cup {Int2Rat(0)}

AdjustInit ==
    /\ pc = "adjust"
    /\ data \in {ListData(series) : series \in AdjustInputs}
    /\ symbol_info \in {Info("", <<>>, <<>>, c) : c \in Correlations}
    /\ symbol = ""
    /\ max_hours = 0
    /\ status = NoStatus
    /\ base_data = NoneData
    /\ idx = 0
    /\ result = NoneData
    /\ lpc = "idle"
    /\ lsymbol = ""
    /\ lmax_hours = 0
    /\ lret = NoneData
    /\ runs = <<>>
    /\ calls = <<>>
    /\ answer = "none"
    /\ request = [t \in Threads |-> NoRequest]
    /\ frame = [t \in Threads |-> IdleFrame]
    /\ statuses = [t \in Threads |-> NoStatus]
    /\ results = [t \in Threads |-> EmptyDict]
    /\ position = [t \in Threads |-> 0]
    /\ response = [t \in Threads |-> NoResponse]
    /\ upstream = EmptyDict
    /\ raw = NoTable
    /\ catalog = SYMBOL_ALTERNATIVES
    /\ variant = NoVariant

\* adjusted_data = apply_correlation_adjustment(data, correlation, symbol)
ApplyCorrelationAdjustment ==
    /\ pc = "adjust"
    /\ result' = ListData(apply_correlation_adjustment(data.list,
                                                       symbol_info.market_correlation))
    /\ data' = ListData(DataAfterAdjustment(data.list, symbol_info.market_correlation))
    /\ pc' = "adjusted"
    /\ UNCHANGED <<symbol, max_hours, symbol_info, status, base_data, idx>>
    /\ UNCHANGED <<lpc, lsymbol, lmax_hours, lret, runs, calls, answer>>
    /\ UNCHANGED <<server, raw, catalog, variant>>

AdjustSpec == AdjustInit /\ [][ApplyCorrelationAdjustment]_vars

Adjusted == pc = "adjusted"

\* the coefficient of the call
Coefficient == symbol_info.market_correlation

\* C24: with a correlation of exactly 1.0 apply_correlation_adjustment
\* returns its input series unchanged: the same points in the same order with
\* the same values.
C24_IdentityAtOne ==
    [][(pc' = "adjusted" /\ Coefficient = One) => result' = data]_vars

\* a series with a rising and a falling bar went through with coefficient 1.0
C24_Witness ==
    /\ Adjusted
    /\ Coefficient = One
    /\ Len(result.list) = 2
    /\ RatLess(result.list[1].open, result.list[1].close)
    /\ RatLess(result.list[2].close, result.list[2].open)

\* the values the adjustment is to give point p with coefficient c:
\* adjusted_change = c * (close - open) / open, close' = open * (1 +
\* adjusted_change), high' = max(open, close') * (1 + 0.5 * |adjusted_change|),
\* low' = min(open, close') * (1 - 0.5 * |adjusted_change|)
AdjustedAsStated(p, q, c) ==
    LET adjusted_change == RatMul(c, RatDiv(RatSub(p.close, p.open), p.open))
        half_move == RatMul(Half, RatAbs(adjusted_change))
    IN  /\ q.close = RatMul(p.open, RatAdd(One, adjusted_change))
        /\ q.high = RatMul(RatMax(p.open, q.close), RatAdd(One, half_move))
        /\ q.low = RatMul(RatMin(p.open, q.close), RatSub(One, half_move))

C26_AdjustmentFrame ==
    [][pc' = "adjusted" =>
          /\ data' = data
          /\ Len(result'.list) = Len(data.list)
          /\ \A i \in DOMAIN data.list :
                LET p == data.list[i]
                    q == result'.list[i]
                IN  /\ q.timestamp = p.timestamp
                    /\ q.timestamp_raw = p.timestamp_raw
                    /\ q.volume = p.volume
                    /\ q.open = p.open
                    /\ (IsNone(p.open) \/ RatIsZero(p.open)) => q = p]_vars

\* a row of zeros passed unchanged next to a falling bar that was adjusted
\* with the coefficient 0.7
C26_Witness ==
    /\ Adjusted
    /\ Coefficient = Rat(70, 100)
    /\ Len(result.list) = 2
    /\ RatIsZero(result.list[1].open)
    /\ result.list[1] = data.list[1]
    /\ result.list[2].close = Rat(493, 5)
    /\ data.list[2].close = Int2Rat(98)

\* ------------------------------------------------------------------------
\* process_market_data on its own: the return statement of a strategy of
\* try_primary_symbol, for any table the provider may have answered with
\* ------------------------------------------------------------------------

\* rows a stale table may have beyond the 100 of data.tail(100)
ExtraRows == 2

\* the time zones of the index of a provider table
NormalizeZones == {"naive", "UTC", "America/New_York", "Australia/Sydney"}

\* where Close is missing: in no row, in every third row, in every row
ClosePatterns == {"all", "some", "none"}

\* the values of row i; the volume is absent, zero, negative and positive in
\* turn
PricedRow(ts, i, pattern) ==
    RawRow(ts, Int2Rat(100 + i), Int2Rat(103 + i), Int2Rat(99 + i),
           IF pattern = "none" \/ (pattern = "some" /\ i % 3 = 0) THEN None
           ELSE Int2Rat(102 + i),
           CASE i % 4 = 0 -> None
             [] i % 4 = 1 -> Int2Rat(0)
             [] i % 4 = 2 -> Int2Rat(0 - (5000 + i))
             [] OTHER -> Int2Rat(5000 + i))

\* the index value, in zone tz, of the row that is age minutes old; an index
\* without zone holds UTC values
IndexValue(age, tz) == Now - age + UtcOffset(IF tz = "naive" THEN "UTC" ELSE tz)

\* ages in minutes, oldest first, on both sides of 12, 24 and 48 hours and of
\* 5 days
AgedMinutes == <<7300, 7201, 7200, 7199, 2881, 2880, 1441, 1440, 721, 720, 60, 0>>

AgedTable(tz, pattern) ==
    [tz |-> tz, wellformed |-> TRUE,
     rows |-> [i \in 1..Len(AgedMinutes) |->
                 PricedRow(IndexValue(AgedMinutes[i], tz), i, pattern)]]

\* n hourly rows, the newest 40 days old
StaleTable(n, tz, pattern) ==
    [tz |-> tz, wellformed |-> TRUE,
     rows |-> [i \in 1..n |->
                 PricedRow(IndexValue(Days(40) + Minutes(n - i), tz), i, pattern)]]

StaleCounts ==
    {RungAMinRows + 2, WidenRows - 1, WidenRows, WidenRows + 1, WidenRows + ExtraRows}

\* a table without one of its columns: row[...] raises KeyError
ColumnMissing(table) == [table EXCEPT !.wellformed = FALSE]

NormalizeTables ==
    {AgedTable(tz, pattern) : tz \in NormalizeZones, pattern \in ClosePatterns}
       \cup {ColumnMissing(AgedTable(tz, "all")) : tz \in NormalizeZones}
       \cup {StaleTable(n, tz, pattern) :
                n \in StaleCounts, tz \in {"naive", "America/New_York"},
                pattern \in ClosePatterns}

\* values of the parameter max_hours of try_primary_symbol: 24 is what the
\* callers of this program pass, 12 tells max_hours from its multiples
NormalizeHours == {12, 24}

Rungs == {"A", "B", "C", "D"}

NormalizeInit ==
    /\ pc = "strategy1"
    /\ symbol = FirstBaseSymbol
    /\ max_hours \in NormalizeHours
    /\ symbol_info = LookupInfo(FirstBaseSymbol)
    /\ status = NewStatus(FirstBaseSymbol, LookupInfo(FirstBaseSymbol))
    /\ data = NoneData
    /\ base_data = NoneData
    /\ idx = 0
    /\ result = NoneData
    /\ lpc \in Rungs
    /\ lsymbol = FirstBaseSymbol
    /\ lmax_hours = max_hours
    /\ lret = NoneData
    /\ runs = <<>>
    /\ calls = SubSeq(RungCalls(FirstBaseSymbol), 1, RungNumber(lpc))
    /\ answer = "rows"
    /\ request = [t \in Threads |-> NoRequest]
    /\ frame = [t \in Threads |-> IdleFrame]
    /\ statuses = [t \in Threads |-> NoStatus]
    /\ results = [t \in Threads |-> EmptyDict]
    /\ position = [t \in Threads |-> 0]
    /\ response = [t \in Threads |-> NoResponse]
    /\ upstream = EmptyDict
    /\ raw \in {table \in NormalizeTables :
                   Len(table.rows) > Strategies(lmax_hours)[lpc].min_rows}
    /\ catalog = SYMBOL_ALTERNATIVES
    /\ variant = NoVariant

\* data.index = data.index.tz_localize('UTC') where it has no zone, then
\* data.index = data.index.tz_convert(sydney_tz): the caller's table
ConvertIndex(table) ==
    [table EXCEPT
       !.tz = "Australia/Sydney",
       !.rows = [i \in DOMAIN table.rows |->
                   [table.rows[i] EXCEPT
                      !.ts = Instant(@, table.tz) + UtcOffset("Australia/Sydney")]]]

\* return process_market_data(data, symbol, ...) of the strategy the ladder
\* is at
ProcessMarketData ==
    /\ lpc \in Rungs
    /\ raw.rows # <<>>
    /\ LadderReturn(process_market_data(raw, Strategies(lmax_hours)[lpc].hours,
                                        Strategies(lmax_hours)[lpc].is_daily))
    /\ raw' = ConvertIndex(raw)
    /\ UNCHANGED <<calls, answer, catalog, variant>>
    /\ UNCHANGED orchestrator
    /\ UNCHANGED server

NormalizeSpec == NormalizeInit /\ [][ProcessMarketData]_<<vars, raw>>

\* the step of process_market_data on a table that has its columns
Normalizes == lpc \in Rungs /\ lpc' = "ret" /\ raw.wellformed

\* the instant of a row of the table in hand
RowInstant(row) == Instant(row.ts, raw.tz)

\* the instant of a point, from its ISO timestamp and offset
PointInstant(point) == point.timestamp_raw[1] - point.timestamp_raw[2]

\* the rows at or after a cutoff, in source order
RowsSince(cutoff) == SelectSeq(raw.rows, LAMBDA row : RowInstant(row) >= cutoff)

\* the last k rows, in source order
LastRows(k) ==
    SubSeq(raw.rows, IF Len(raw.rows) > k THEN Len(raw.rows) - k + 1 ELSE 1,
           Len(raw.rows))

\* the rows whose Close is present, in source order
WithClose(rows) == SelectSeq(rows, LAMBDA row : ~IsNone(row.Close))

\* value is the series of exactly these rows, or None when there is none
SeriesOf(value, rows) ==
    IF rows = <<>> THEN value.isNone
    ELSE /\ ~value.isNone
         /\ Len(value.list) = Len(rows)
         /\ \A i \in DOMAIN rows :
               /\ PointInstant(value.list[i]) = RowInstant(rows[i])
               /\ value.list[i].open = rows[i].Open
               /\ value.list[i].high = rows[i].High
               /\ value.list[i].low = rows[i].Low
               /\ value.list[i].close = rows[i].Close

\* the cutoff of the call the ladder makes at its strategy
CallCutoff ==
    CutoffTime(Strategies(lmax_hours)[lpc].hours, Strategies(lmax_hours)[lpc].is_daily)

\* C27: when no raw row passes the recency window and there is at least one
\* raw row, process_market_data falls back to exactly the last 100 raw rows
\* in source order, all rows when there are fewer than 100.
C27_WidensToLast100 ==
    [][(Normalizes /\ RowsSince(CallCutoff) = <<>>) =>
          SeriesOf(lret', WithClose(LastRows(100)))]_<<vars, raw>>

\* of 101 stale rows the last 100 were returned
C27_Witness ==
    /\ lpc = "ret"
    /\ raw.wellformed
    /\ Len(raw.rows) = 101
    /\ ~lret.isNone
    /\ Len(lret.list) = 100
    /\ lret.list[1].close = raw.rows[2].Close

\* C28: the output of process_market_data is exactly the subsequence, in
\* source order, of the selected rows (the recency window, or the widened
\* last 100) whose close is present; it returns None if and only if that
\* subsequence is empty.
C28_CloseValidSubsequence ==
    [][Normalizes =>
          LET selected == IF RowsSince(CallCutoff) = <<>> THEN LastRows(100)
                          ELSE RowsSince(CallCutoff)
          IN  /\ SeriesOf(lret', WithClose(selected))
              /\ lret'.isNone <=> (WithClose(selected) = <<>>)]_<<vars, raw>>

\* rows of the window without close were dropped and the others returned
C28_Witness ==
    /\ lpc = "ret"
    /\ raw.wellformed
    /\ Len(raw.rows) = Len(AgedMinutes)
    /\ IsNone(raw.rows[Len(raw.rows)].Close)
    /\ ~lret.isNone
    /\ lret.list[Len(lret.list)].close = raw.rows[Len(raw.rows) - 1].Close

\* C29: before any widening process_market_data keeps exactly the rows whose
\* timestamp is at or after the cutoff, which is now minus 5 days when
\* is_daily is true, whatever max_hours is, and now minus max_hours hours
\* otherwise; an index without time zone is read as UTC.
C29_RecencyWindow ==
    [][Normalizes =>
          LET hours == Strategies(lmax_hours)[lpc].hours
              is_daily == Strategies(lmax_hours)[lpc].is_daily
              cutoff == IF is_daily THEN Now - 5 * 24 * 60 ELSE Now - hours * 60
          IN  RowsSince(cutoff) # <<>> =>
                 SeriesOf(lret', WithClose(RowsSince(cutoff)))]_<<vars, raw>>

\* is_daily with max_hours * 24 = 288 hours: of a table without time zone
\* the row exactly 5 days old is the first that is kept
C29_Witness ==
    /\ lpc = "ret"
    /\ raw.wellformed
    /\ Len(calls) = 4
    /\ lmax_hours = 12
    /\ Len(raw.rows) = Len(AgedMinutes)
    /\ ~lret.isNone
    /\ Len(lret.list) = 10
    /\ PointInstant(lret.list[1]) = Now - Days(5)

\* C30: try_primary_symbol passes the caller's max_hours to the normalizer in
\* strategies A and B, max_hours * 2 in strategy C, and max_hours * 24 with
\* is_daily = true in strategy D, where the window is the last 5 days.
C30_WindowPerStrategy ==
    [][Normalizes =>
          LET window == CASE lpc \in {"A", "B"} -> Minutes(lmax_hours)
                          [] lpc = "C" -> Minutes(lmax_hours * 2)
                          [] lpc = "D" -> Days(5)
          IN  /\ Strategies(lmax_hours)["D"].hours = lmax_hours * 24
              /\ Strategies(lmax_hours)["D"].is_daily
              /\ RowsSince(Now - window) # <<>> =>
                    SeriesOf(lret', WithClose(RowsSince(Now - window)))]_<<vars, raw>>

\* strategy C with max_hours = 24: the row exactly 48 hours old is the first
\* that is kept
C30_Witness ==
    /\ lpc = "ret"
    /\ raw.wellformed
    /\ Len(calls) = 3
    /\ lmax_hours = 24
    /\ Len(raw.rows) = Len(AgedMinutes)
    /\ ~lret.isNone
    /\ Len(lret.list) = 7
    /\ PointInstant(lret.list[1]) = Now - Minutes(48)

\* the rows process_market_data selects and keeps, in source order
KeptRows ==
    WithClose(IF RowsSince(CallCutoff) = <<>> THEN LastRows(100)
              ELSE RowsSince(CallCutoff))

ReturnedSynthetic ==
    /\ pc = "done"
    /\ ~result.isNone
    /\ \A i \in DOMAIN result.list : result.list[i].origin = "generated"

\* C32: every point of every synthetic series, from create_correlated_data
\* or from generate_standard_demo_data, has a volume floored at zero,
\* whatever the Gaussian draw returns.
C32_SyntheticVolumeFloored ==
    ReturnedSynthetic => \A i \in DOMAIN result.list : result.list[i].volume >= 0

\* the runs of try_primary_symbol made by generate_correlated_demo_data
BenchmarkRuns == SelectSeq(runs, LAMBDA run : run.stage \in DemoStages)

\* generate_correlated_demo_data has its base_data
SynthesisDecided == pc \in {"demo_make", "done", "raised"} /\ BenchmarkRuns # <<>>

\* the series returned is the 24-point hourly walk that ends now
StandaloneWalk ==
    /\ ReturnedSynthetic
    /\ Len(result.list) = 24
    /\ PointInstant(result.list[24]) = Now

\* C33: during synthesis the benchmark symbols are fetched through the
\* ladder with a 24-hour window in the order ^GSPC, ^DJI, ^IXIC, ^FTSE; the
\* first one that succeeds becomes the reference and no later benchmark is
\* fetched; the standalone random walk is used if and only if all four fail.
C33_BenchmarkOrder ==
    LET benchmarks == <<"^GSPC", "^DJI", "^IXIC", "^FTSE">>
        n == Len(BenchmarkRuns)
        allFailed == n = 4 /\ \A i \in 1..n : ~BenchmarkRuns[i].ok
    IN  /\ n <= 4
        /\ \A i \in 1..n : BenchmarkRuns[i].symbol = benchmarks[i]
        /\ \A i \in 1..(n - 1) : ~BenchmarkRuns[i].ok
        /\ (pc \in DemoStages /\ lpc # "idle") => lmax_hours = 24
        /\ SynthesisDecided =>
              /\ ~allFailed => (BenchmarkRuns[n].ok /\ Truthy(base_data))
              /\ allFailed => base_data.isNone
        /\ (SynthesisDecided /\ pc = "done") => (StandaloneWalk <=> allFailed)

\* ^GSPC and ^DJI failed, ^IXIC succeeded and became the reference of the
\* series returned; ^FTSE was not fetched
C33_Witness ==
    /\ pc = "done"
    /\ Len(BenchmarkRuns) = 3
    /\ BenchmarkRuns[3].symbol = "^IXIC"
    /\ BenchmarkRuns[3].ok
    /\ ReturnedSynthetic
    /\ Len(result.list) = Len(base_data.list)

\* the resolution returned the series create_correlated_data made from
\* base_data
ReturnedCorrelated == ReturnedSynthetic /\ Truthy(base_data)

\* C34: create_correlated_data returns a series of the length of the
\* reference series in which each point carries the timestamp of the
\* reference point at the same index; the first point's open and close are
\* the seed price 1000, and the open of every later point is the close of
\* the synthetic point before it.
C34_CorrelatedChain ==
    ReturnedCorrelated =>
       /\ Len(result.list) = Len(base_data.list)
       /\ \A i \in DOMAIN result.list :
             /\ result.list[i].timestamp = base_data.list[i].timestamp
             /\ result.list[i].timestamp_raw = base_data.list[i].timestamp_raw
       /\ result.list[1].open = <<1000, 1>>
       /\ result.list[1].close = <<1000, 1>>
       /\ \A i \in 2..Len(result.list) :
             result.list[i].open = result.list[i - 1].close

\* a correlated series whose closes move, each open being the close before
C34_Witness ==
    /\ ReturnedCorrelated
    /\ Len(result.list) >= 3
    /\ result.list[2].close # result.list[1].close
    /\ result.list[3].close # result.list[2].close
    /\ result.list[3].open = result.list[2].close

\* the resolution returned the series of generate_standard_demo_data
ReturnedStandalone == ReturnedSynthetic /\ ~Truthy(base_data)

\* the return drawn at step i (0-based) of the walk of a stream
StepReturn(seed, i) == Normal(Int2Rat(0), Rat(1, 100), seed, 2 * i + 1)

\* 24 points, ascending and one hour apart, the last one now in
\* Australia/Sydney, the first close 1000
HourlyFromSeedPrice ==
    /\ Len(result.list) = 24
    /\ \A i \in 1..23 :
          PointInstant(result.list[i + 1]) = PointInstant(result.list[i]) + 60
    /\ PointInstant(result.list[24]) = Now
    /\ \A i \in 1..24 :
          /\ result.list[i].timestamp_raw[2] = UtcOffset("Australia/Sydney")
          /\ result.list[i].timestamp[2] = "Australia/Sydney"
    /\ result.list[1].close = <<1000, 1>>

\* C35 (as stated): generate_standard_demo_data returns exactly 24 points
\* whose timestamps are ascending and one hour apart, the last being now in
\* Australia/Sydney, whose first close is the seed price 1000, and in which
\* each later close is the previous close multiplied by (1 + that step's
\* drawn return).
C35_StandardWalk ==
    ReturnedStandalone =>
       /\ HourlyFromSeedPrice
       /\ \E seed \in Seeds :
             \A i \in 2..Len(result.list) :
                result.list[i].close =
                   RatMul(result.list[i - 1].close, OnePlus(StepReturn(seed, i - 1)))

\* C35 (amended): as above, each later close being the previous close
\* multiplied by (1 + that step's drawn return) and rounded to 2 decimals.
C35_StandardWalkRounded ==
    ReturnedStandalone =>
       /\ HourlyFromSeedPrice
       /\ \E seed \in Seeds :
             \A i \in 2..Len(result.list) :
                result.list[i].close =
                   Round2(RatMul(result.list[i - 1].close,
                                 OnePlus(StepReturn(seed, i - 1))))

\* a standalone walk in which a close is not the exact product: the rounding
\* to 2 decimals acted
C35_Witness ==
    /\ ReturnedStandalone
    /\ Len(result.list) = 24
    /\ \A seed \in Seeds :
          \E i \in 2..24 :
             /\ result.list[i].close #
                   RatMul(result.list[i - 1].close, OnePlus(StepReturn(seed, i - 1)))

\* C36: every point of a correlated synthetic series has a high/low band
\* that contains both its open and its close: low <= open <= high and
\* low <= close <= high.
C36_BandContainsOpenAndClose ==
    ReturnedCorrelated =>
       \A i \in DOMAIN result.list :
          LET point == result.list[i]
          IN  /\ RatLeq(point.low, point.open) /\ RatLeq(point.open, point.high)
              /\ RatLeq(point.low, point.close) /\ RatLeq(point.close, point.high)

\* vocabulary of the finding: the close of every correlated point is inside
\* its band
CloseInsideBand ==
    ReturnedCorrelated =>
       \A i \in DOMAIN result.list :
          /\ RatLeq(result.list[i].low, result.list[i].close)
          /\ RatLeq(result.list[i].close, result.list[i].high)

\* ------------------------------------------------------------------------
\* The catalog SYMBOL_ALTERNATIVES under the routes that read it
\* ------------------------------------------------------------------------

\* the default argument of SYMBOL_ALTERNATIVES.get in get_multi_strategy_data
DefaultProfile(sym) == Info(sym, <<sym>>, <<>>, Rat(10, 10))

\* the default argument {} of SYMBOL_ALTERNATIVES.get in validate_symbol
EmptyProfile == [k \in {} |-> <<>>]

\* d.get(key, default): the value
Get(d, key, default) == IF key \in DOMAIN d THEN d[key] ELSE default

\* variant: d.setdefault(key, default), which stores the default
DictAfterGet_setdefault(d, key, default) ==
    IF key \in DOMAIN d THEN d ELSE Put(d, key, default)

\* d.get(key, default): the dictionary afterwards; get stores nothing
DictAfterGet(d, key, default) == d

\* the dictionary after the lookups of get_multi_strategy_data for each of
\* the symbols in turn
RECURSIVE DictAfterLookups(_, _)
DictAfterLookups(d, symbols) ==
    IF symbols = <<>> THEN d
    ELSE DictAfterLookups(DictAfterGet(d, Head(symbols), DefaultProfile(Head(symbols))),
                          Tail(symbols))

\* the requests of one client: any of the four routes, for any symbol
CatalogRoutes == {"stock", "bulk", "validate", "symbols"}

\* test_symbol_validity(symbol): what the provider lets it return
Validities == BOOLEAN

\* GET /api/stock/<symbol>: the lookup of get_multi_strategy_data; the
\* resolution that follows works on local variables (Spec, ServerSpec)
CatalogStock(t) ==
    /\ request[t].route = "none"
    /\ \E sym \in RequestSymbols :
          /\ request' = [request EXCEPT ![t] =
                [route |-> "stock", has_symbols |-> FALSE, symbols |-> <<sym>>]]
          /\ frame' = [frame EXCEPT ![t] =
                [IdleFrame EXCEPT !.symbol = sym,
                                  !.symbol_info = Get(catalog, sym, DefaultProfile(sym))]]
          /\ catalog' = DictAfterGet(catalog, sym, DefaultProfile(sym))
    /\ UNCHANGED <<statuses, results, position, response, upstream>>
    /\ UNCHANGED <<vars, raw, variant>>

\* POST /api/bulk: the lookups of get_multi_strategy_data for the symbols of
\* the body, in order
CatalogBulk(t) ==
    /\ request[t].route = "none"
    /\ \E symbols \in BulkLists :
          /\ request' = [request EXCEPT ![t] =
                [route |-> "bulk", has_symbols |-> TRUE, symbols |-> symbols]]
          /\ position' = [position EXCEPT ![t] = Len(symbols)]
          /\ catalog' = DictAfterLookups(catalog, symbols)
    /\ UNCHANGED <<frame, statuses, results, response, upstream>>
    /\ UNCHANGED <<vars, raw, variant>>

\* GET /api/validate/<symbol>
ValidateSymbol(t) ==
    /\ request[t].route = "none"
    /\ \E sym \in RequestSymbols, is_valid \in Validities :
          LET found == Get(catalog, sym, EmptyProfile)
              after == DictAfterGet(catalog, sym, EmptyProfile)
              again == Get(after, sym, EmptyProfile)
          IN  /\ request' = [request EXCEPT ![t] =
                    [route |-> "validate", has_symbols |-> FALSE, symbols |-> <<sym>>]]
              /\ response' = [response EXCEPT ![t] =
                    [code |-> 200,
                     body |-> [symbol |-> sym, valid |-> is_valid,
                               alternatives |-> Get(found, "alternatives", <<>>),
                               has_proxy |-> Len(Get(again, "proxy_symbols", <<>>)) > 0]]]
              /\ catalog' = DictAfterGet(after, sym, EmptyProfile)
    /\ UNCHANGED <<frame, statuses, results, position, upstream>>
    /\ UNCHANGED <<vars, raw, variant>>

\* GET /api/symbols
GetSymbols(t) ==
    /\ request[t].route = "none"
    /\ request' = [request EXCEPT ![t] =
          [route |-> "symbols", has_symbols |-> FALSE, symbols |-> <<>>]]
    /\ response' = [response EXCEPT ![t] =
          [code |-> 200,
           body |-> [symbols |-> [sym \in DOMAIN catalog |-> catalog[sym].name],
                     count |-> Cardinality(DOMAIN catalog)]]]
    /\ UNCHANGED <<frame, statuses, results, position, upstream, catalog>>
    /\ UNCHANGED <<vars, raw, variant>>

\* the request is answered and the client may send its next one
RequestDone(t) ==
    /\ request[t].route \in CatalogRoutes
    /\ request' = [request EXCEPT ![t] = NoRequest]
    /\ frame' = [frame EXCEPT ![t] = IdleFrame]
    /\ position' = [position EXCEPT ![t] = 0]
    /\ response' = [response EXCEPT ![t] = NoResponse]
    /\ UNCHANGED <<statuses, results, upstream, catalog>>
    /\ UNCHANGED <<vars, raw, variant>>

CatalogNext ==
    \E t \in Threads :
       \/ CatalogStock(t)
       \/ CatalogBulk(t)
       \/ ValidateSymbol(t)
       \/ GetSymbols(t)
       \/ RequestDone(t)

CatalogSpec == Init /\ [][CatalogNext]_<<vars, server, catalog>>

\* C37: no operation (single resolve, bulk resolve, symbol validation,
\* symbol listing) modifies SYMBOL_ALTERNATIVES: after any sequence of
\* requests, requests for unknown symbols included, the catalog equals its
\* startup value and the default profile of an unknown symbol is not in it.
C37_CatalogNeverModified ==
    /\ catalog = SYMBOL_ALTERNATIVES
    /\ UnknownSymbol \notin DOMAIN catalog

\* an unknown symbol is being resolved with its default profile while
\* another request validates it
C37_Witness ==
    /\ request["t1"].route = "stock"
    /\ request["t1"].symbols = <<UnknownSymbol>>
    /\ frame["t1"].symbol_info = DefaultProfile(UnknownSymbol)
    /\ request["t2"].route = "validate"
    /\ request["t2"].symbols = <<UnknownSymbol>>
    /\ response["t2"].body.alternatives = <<>>

\* ------------------------------------------------------------------------
\* app_fixed.py and app_working.py: get_market_data and GET /api/stock
\* ------------------------------------------------------------------------

Apps == {"app_fixed", "app_working"}

\* rows of the largest table ticker.history answers with
HistRows == 51

Intraday == {"5m", "15m", "30m", "1h"}

valid_intervals == Intraday \cup {"1d"}

\* the values of the query argument interval
RequestedIntervals == valid_intervals \cup {"2h"}

VariantSymbols == {FirstBaseSymbol, UnknownSymbol}

\* variant: the first two approaches change places
Approaches_swapped(app) ==
    IF app = "app_fixed" THEN <<"1mo", "5d", "start/end">> ELSE <<"1mo", "5d", "3mo">>

\* approaches (app_fixed) and periods_to_try (app_working), in their order
Approaches(app) ==
    IF app = "app_fixed" THEN <<"5d", "1mo", "start/end">> ELSE <<"5d", "1mo", "3mo">>

\* the interval ticker.history is called with
HistoryInterval(app, interval) ==
    IF app = "app_fixed" THEN interval
    ELSE IF interval \in Intraday THEN interval ELSE "1d"

\* what ticker.history does: it raises, or answers with a table of n rows
HistAnswers == {[raises |-> TRUE, rows |-> 0]} \cup
               {[raises |-> FALSE, rows |-> n] : n \in {0, 1, HistRows}}

\* the points made from the rows of hist; the prices of these variants are
\* not looked at by any property
Converted(rows) == [i \in 1..rows |-> [origin |-> "provider", at |-> i]]

\* data[-k:] if len(data) > k else data
LastPoints(points, k) ==
    IF Len(points) > k THEN SubSeq(points, Len(points) - k + 1, Len(points))
    ELSE points

\* the slice of the converted rows that is returned
ReturnedPoints(app, interval, points) ==
    IF app = "app_fixed" THEN LastPoints(points, 50)
    ELSE IF interval \in Intraday THEN LastPoints(points, 50)
    ELSE LastPoints(points, 30)

\* points of generate_realistic_data
GeneratedCount(app, interval) ==
    IF app = "app_fixed"
    THEN IF interval \in Intraday THEN 50 ELSE 30
    ELSE CASE interval = "5m" -> 72
           [] interval = "15m" -> 24
           [] interval = "30m" -> 12
           [] interval = "1h" -> 6
           [] OTHER -> 30

generate_realistic_data(app, interval) ==
    [i \in 1..GeneratedCount(app, interval) |-> [origin |-> "generated", at |-> i]]

\* 'YFinance' if len(data) > 0 else 'Generated'
DataSourceLabel(points) == IF Len(points) > 0 THEN "YFinance" ELSE "Generated"

\* the JSON body of the 200 answer of get_stock_data
VariantBody(v) ==
    IF v.app = "app_fixed"
    THEN [symbol |-> v.symbol, interval |-> v.interval, data |-> v.data,
          count |-> Len(v.data),
          debug_info |-> [received_symbol |-> v.symbol,
                          normalized_symbol |-> v.symbol,
                          data_source |-> DataSourceLabel(v.data)]]
    ELSE [symbol |-> v.symbol, interval |-> v.interval, data |-> v.data,
          count |-> Len(v.data)]

VariantInit ==
    /\ pc = "idle"
    /\ symbol = ""
    /\ max_hours = 0
    /\ symbol_info = Info("", <<>>, <<>>, One)
    /\ status = NoStatus
    /\ data = NoneData
    /\ base_data = NoneData
    /\ idx = 0
    /\ result = NoneData
    /\ lpc = "idle"
    /\ lsymbol = ""
    /\ lmax_hours = 0
    /\ lret = NoneData
    /\ runs = <<>>
    /\ calls = <<>>
    /\ answer = "none"
    /\ request = [t \in Threads |-> NoRequest]
    /\ frame = [t \in Threads |-> IdleFrame]
    /\ statuses = [t \in Threads |-> NoStatus]
    /\ results = [t \in Threads |-> EmptyDict]
    /\ position = [t \in Threads |-> 0]
    /\ response = [t \in Threads |-> NoResponse]
    /\ upstream = EmptyDict
    /\ raw = NoTable
    /\ catalog = SYMBOL_ALTERNATIVES
    /\ variant \in {[NoVariant EXCEPT !.app = app] : app \in Apps}

\* GET /api/stock/<symbol>?interval=...: 400 for an interval that is not
\* valid; else get_market_data up to its first call of ticker.history, or to
\* its outer except when yf.Ticker raises
VariantGetStockData ==
    /\ variant.pc = "idle"
    /\ \E sym \in VariantSymbols, interval \in RequestedIntervals, ticker \in BOOLEAN :
          variant' =
             IF interval \notin valid_intervals
             THEN [variant EXCEPT !.symbol = sym, !.interval = interval,
                                  !.pc = "responded", !.response = [code |-> 400]]
             ELSE IF ticker
             THEN [variant EXCEPT !.symbol = sym, !.interval = interval,
                                  !.pc = "attempt"]
             ELSE [variant EXCEPT !.symbol = sym, !.interval = interval,
                                  !.pc = "returned",
                                  !.data = generate_realistic_data(variant.app, interval)]
    /\ UNCHANGED <<vars, server, raw, catalog>>

\* one turn of the loop over the approaches: a table that is not empty is
\* converted and returned; an exception or an empty table leads to the next
\* approach, and after the last one to generate_realistic_data
HistoryAttempt ==
    /\ variant.pc = "attempt"
    /\ \E hist \in HistAnswers :
          LET k == Len(variant.attempts) + 1
              made == Append(variant.attempts,
                             [approach |-> Approaches(variant.app)[k],
                              interval |-> HistoryInterval(variant.app, variant.interval),
                              raises |-> hist.raises, rows |-> hist.rows])
          IN  variant' =
                 IF ~hist.raises /\ hist.rows > 0
                 THEN [variant EXCEPT
                         !.attempts = made, !.pc = "returned",
                         !.data = ReturnedPoints(variant.app, variant.interval,
                                                 Converted(hist.rows))]
                 ELSE IF k < Len(Approaches(variant.app))
                 THEN [variant EXCEPT !.attempts = made]
                 ELSE [variant EXCEPT
                         !.attempts = made, !.pc = "returned",
                         !.data = generate_realistic_data(variant.app, variant.interval)]
    /\ UNCHANGED <<vars, server, raw, catalog>>

\* return jsonify({...}) of get_stock_data
VariantRespond ==
    /\ variant.pc = "returned"
    /\ variant' = [variant EXCEPT !.pc = "responded",
                                  !.response = [code |-> 200, body |-> VariantBody(variant)]]
    /\ UNCHANGED <<vars, server, raw, catalog>>

VariantNext == VariantGetStockData \/ HistoryAttempt \/ VariantRespond

VariantSpec == VariantInit /\ [][VariantNext]_<<vars, variant>>

\* get_market_data has returned
MarketDataReturned == variant.pc \in {"returned", "responded"} /\ variant.response.code # 400

\* a provider attempt that raised or answered with an empty table
AttemptFailed(attempt) == attempt.raises \/ attempt.rows = 0

\* the data returned was made by generate_realistic_data
DataGenerated == variant.data # <<>> /\ variant.data[1].origin = "generated"

C39_GeneratedIsTagged ==
    (variant.app = "app_fixed" /\ variant.pc = "responded" /\ variant.response.code = 200) =>
       LET data_source == variant.response.body.debug_info.data_source
       IN  /\ DataGenerated => data_source = "Generated"
           /\ data_source = "YFinance" => ~DataGenerated

====
